---- MODULE Spec2Model ----
(***************************************************************************)
(* A model of the schema-mapping and schema-diff engines of the ETL        *)
(* platform: SchemaMappingAgent / SchemaMappingAgentLangGraph              *)
(* (generate_mappings, update_mappings and their scoring helpers) and      *)
(* DataDiscoveryAgent.detect_schema_changes.                               *)
(*                                                                         *)
(* Strings of the program (field names, data types, schema ids, cache      *)
(* keys) are sequences of one-character strings, so that the string        *)
(* conversions of the code (lower(), upper(), replace(), re.sub(), the     *)
(* f-string that builds the cache key) are computed and not assumed.       *)
(* Confidence values are exact rationals <<n, d>> in lowest terms: the     *)
(* code's floats are products of a ratio 2M/T with 0.3, 1.2, 1.05, 0.95    *)
(* and 0.85, which the model multiplies exactly.                           *)
(***************************************************************************)
EXTENDS Integers, Sequences, FiniteSets, TLC

(***************************************************************************)
(* Characters and the str methods the code uses.                           *)
(***************************************************************************)
Letters == <<"a","b","c","d","e","f","g","h","i","j","k","l","m",
             "n","o","p","q","r","s","t","u","v","w","x","y","z">>

Caps == <<"A","B","C","D","E","F","G","H","I","J","K","L","M",
          "N","O","P","Q","R","S","T","U","V","W","X","Y","Z">>

LowerChar(c) ==
    IF \E i \in DOMAIN Caps : Caps[i] = c
    THEN Letters[CHOOSE i \in DOMAIN Caps : Caps[i] = c]
    ELSE c

UpperChar(c) ==
    IF \E i \in DOMAIN Letters : Letters[i] = c
    THEN Caps[CHOOSE i \in DOMAIN Letters : Letters[i] = c]
    ELSE c

\* str.lower() and str.upper()
Lower(s) == [i \in DOMAIN s |-> LowerChar(s[i])]

Upper(s) == [i \in DOMAIN s |-> UpperChar(s[i])]

\* str.replace(c, ''): every occurrence of the character c removed
RemoveChar(s, c) == SelectSeq(s, LAMBDA x : x # c)

\* s[lo:hi] of Python, on 1-based positions lo..hi-1
Slice(s, lo, hi) == [i \in 1..(hi - lo) |-> s[lo + i - 1]]

\* needle in hay
IsSubstring(needle, hay) ==
    \E k \in 0..(Len(hay) - Len(needle)) :
        \A i \in 1..Len(needle) : hay[k + i] = needle[i]

(***************************************************************************)
(* Exact rationals <<n, d>>, d > 0, in lowest terms.                       *)
(***************************************************************************)
RECURSIVE GCD(_, _)
GCD(a, b) == IF b = 0 THEN a ELSE GCD(b, a % b)

Rat(n, d) == IF n = 0 THEN <<0, 1>> ELSE <<n \div GCD(n, d), d \div GCD(n, d)>>

RMul(x, y) == Rat(x[1] * y[1], x[2] * y[2])

RGt(x, y) == x[1] * y[2] > y[1] * x[2]

RMax(x, y) == IF RGt(y, x) THEN y ELSE x

RMin(x, y) == IF RGt(x, y) THEN y ELSE x

ROne == <<1, 1>>

RZero == <<0, 1>>

(***************************************************************************)
(* difflib.SequenceMatcher(None, a, b).ratio(), as the standard library    *)
(* computes it for strings shorter than 200 characters (no junk, no        *)
(* autojunk).  Windows are Python's: 0-based, half-open [alo, ahi).        *)
(***************************************************************************)
RECURSIVE RunLen(_, _, _, _, _, _)
RunLen(a, b, i, j, ahi, bhi) ==
    IF i >= ahi \/ j >= bhi THEN 0
    ELSE IF a[i + 1] # b[j + 1] THEN 0
    ELSE 1 + RunLen(a, b, i + 1, j + 1, ahi, bhi)

\* find_longest_match: the longest block; of those the one that starts
\* earliest in a, and of those the one that starts earliest in b.
EarliestLongest(len) ==
    CHOOSE p \in DOMAIN len :
        \A q \in DOMAIN len :
            \/ len[p] > len[q]
            \/ /\ len[p] = len[q]
               /\ \/ p[1] < q[1]
                  \/ (p[1] = q[1] /\ p[2] <= q[2])

BlockAt(len, p) == <<p[1], p[2], len[p]>>

\* len[<<i, j>>] is the length of the common run that starts at a[i], b[j];
\* with no common character the block is (alo, blo, 0)
LongestBlock(len) == BlockAt(len, EarliestLongest(len))

FindLongestMatch(a, b, alo, ahi, blo, bhi) ==
    IF alo >= ahi \/ blo >= bhi THEN <<alo, blo, 0>>
    ELSE LongestBlock([p \in (alo..(ahi - 1)) \X (blo..(bhi - 1)) |->
                          RunLen(a, b, p[1], p[2], ahi, bhi)])

\* get_matching_blocks, summed: the number of matched characters
RECURSIVE Matches(_, _, _, _, _, _)
RECURSIVE MatchesAround(_, _, _, _, _, _, _)
Matches(a, b, alo, ahi, blo, bhi) ==
    MatchesAround(a, b, alo, ahi, blo, bhi,
                  FindLongestMatch(a, b, alo, ahi, blo, bhi))

\* The block m = (i, j, k) found in the window, then the windows left and
\* right of it
MatchesAround(a, b, alo, ahi, blo, bhi, m) ==
    IF m[3] = 0 THEN 0
    ELSE m[3]
         + (IF alo < m[1] /\ blo < m[2]
            THEN Matches(a, b, alo, m[1], blo, m[2]) ELSE 0)
         + (IF m[1] + m[3] < ahi /\ m[2] + m[3] < bhi
            THEN Matches(a, b, m[1] + m[3], ahi, m[2] + m[3], bhi) ELSE 0)

SequenceMatcherRatio(a, b) ==
    IF Len(a) + Len(b) = 0 THEN ROne
    ELSE Rat(2 * Matches(a, b, 0, Len(a), 0, Len(b)), Len(a) + Len(b))

(***************************************************************************)
(* SchemaMappingAgent: name similarity.                                    *)
(***************************************************************************)
\* common_abbreviations.items(), in the order of the dict literal
common_abbreviations ==
    << <<<<"i","d">>,
         <<"i","d","e","n","t","i","f","i","e","r">>>>,
       <<<<"n","u","m">>,
         <<"n","u","m","b","e","r">>>>,
       <<<<"q","t","y">>,
         <<"q","u","a","n","t","i","t","y">>>>,
       <<<<"a","m","t">>,
         <<"a","m","o","u","n","t">>>>,
       <<<<"d","e","s","c">>,
         <<"d","e","s","c","r","i","p","t","i","o","n">>>>,
       <<<<"a","d","d","r">>,
         <<"a","d","d","r","e","s","s">>>>,
       <<<<"t","e","l">>,
         <<"t","e","l","e","p","h","o","n","e">>>>,
       <<<<"e","m","a","i","l">>,
         <<"e","m","a","i","l","a","d","d","r","e","s","s">>>> >>

\* name.lower().replace('_', '').replace('-', '')
NormalizeName(name) == RemoveChar(RemoveChar(Lower(name), "_"), "-")

\* if norm1 in norm2 or norm2 in norm1: similarity = max(similarity, 0.8)
ContainmentBoost(norm1, norm2, similarity) ==
    IF IsSubstring(norm1, norm2) \/ IsSubstring(norm2, norm1)
    THEN RMax(similarity, <<4, 5>>) ELSE similarity

\* the pairs taken in the order (abbreviation, full name) only
AbbreviationBoostOneWay(norm1, norm2, similarity) ==
    IF \E x \in DOMAIN common_abbreviations :
           norm1 = common_abbreviations[x][1] /\ norm2 = common_abbreviations[x][2]
    THEN RMax(similarity, <<9, 10>>) ELSE similarity

\* for abbr, full in common_abbreviations.items(): ... max(similarity, 0.9)
AbbreviationBoost(norm1, norm2, similarity) ==
    IF \E x \in DOMAIN common_abbreviations :
           \/ (norm1 = common_abbreviations[x][1]
               /\ norm2 = common_abbreviations[x][2])
           \/ (norm1 = common_abbreviations[x][2]
               /\ norm2 = common_abbreviations[x][1])
    THEN RMax(similarity, <<9, 10>>) ELSE similarity

\* _calculate_name_similarity from the normalised names on
NormalizedSimilarity(norm1, norm2) ==
    IF norm1 = norm2 THEN ROne
    ELSE AbbreviationBoost(norm1, norm2,
             ContainmentBoost(norm1, norm2, SequenceMatcherRatio(norm1, norm2)))

_calculate_name_similarity(name1, name2) ==
    NormalizedSimilarity(NormalizeName(name1), NormalizeName(name2))

(***************************************************************************)
(* SchemaMappingAgent: data types.  The normalised type names of the       *)
(* compatibility matrix, spelled as character sequences.                   *)
(***************************************************************************)
T ==
    [VARCHAR |-> <<"V","A","R","C","H","A","R">>,
     TEXT |-> <<"T","E","X","T">>,
     CHAR |-> <<"C","H","A","R">>,
     STRING |-> <<"S","T","R","I","N","G">>,
     INTEGER |-> <<"I","N","T","E","G","E","R">>,
     BIGINT |-> <<"B","I","G","I","N","T">>,
     SMALLINT |-> <<"S","M","A","L","L","I","N","T">>,
     INT |-> <<"I","N","T">>,
     NUMERIC |-> <<"N","U","M","E","R","I","C">>,
     DECIMAL |-> <<"D","E","C","I","M","A","L">>,
     FLOAT |-> <<"F","L","O","A","T">>,
     DOUBLE |-> <<"D","O","U","B","L","E">>,
     DATE |-> <<"D","A","T","E">>,
     TIMESTAMP |-> <<"T","I","M","E","S","T","A","M","P">>,
     DATETIME |-> <<"D","A","T","E","T","I","M","E">>,
     TIME |-> <<"T","I","M","E">>,
     BOOLEAN |-> <<"B","O","O","L","E","A","N">>,
     BOOL |-> <<"B","O","O","L">>,
     BIT |-> <<"B","I","T">>,
     BLOB |-> <<"B","L","O","B">>,
     BINARY |-> <<"B","I","N","A","R","Y">>,
     VARBINARY |-> <<"V","A","R","B","I","N","A","R","Y">>]

\* TYPE_COMPATIBILITY: each key of the dict with its list, in the dict's order
TYPE_COMPATIBILITY ==
    <<
       <<T.VARCHAR, {T.TEXT, T.CHAR, T.STRING, T.VARCHAR}>>,
       <<T.TEXT, {T.VARCHAR, T.CHAR, T.STRING, T.TEXT}>>,
       <<T.CHAR, {T.VARCHAR, T.TEXT, T.STRING, T.CHAR}>>,
       <<T.STRING, {T.VARCHAR, T.TEXT, T.CHAR, T.STRING}>>,
       <<T.INTEGER, {T.BIGINT, T.SMALLINT, T.INT, T.INTEGER, T.NUMERIC, T.DECIMAL}>>,
       <<T.BIGINT, {T.INTEGER, T.SMALLINT, T.INT, T.BIGINT, T.NUMERIC, T.DECIMAL}>>,
       <<T.SMALLINT, {T.INTEGER, T.BIGINT, T.INT, T.SMALLINT, T.NUMERIC, T.DECIMAL}>>,
       <<T.INT, {T.INTEGER, T.BIGINT, T.SMALLINT, T.INT, T.NUMERIC, T.DECIMAL}>>,
       <<T.NUMERIC, {T.INTEGER, T.BIGINT, T.DECIMAL, T.FLOAT, T.DOUBLE, T.NUMERIC}>>,
       <<T.DECIMAL, {T.INTEGER, T.BIGINT, T.NUMERIC, T.FLOAT, T.DOUBLE, T.DECIMAL}>>,
       <<T.FLOAT, {T.DOUBLE, T.NUMERIC, T.DECIMAL, T.FLOAT}>>,
       <<T.DOUBLE, {T.FLOAT, T.NUMERIC, T.DECIMAL, T.DOUBLE}>>,
       <<T.DATE, {T.TIMESTAMP, T.DATETIME, T.DATE}>>,
       <<T.TIMESTAMP, {T.DATETIME, T.DATE, T.TIMESTAMP}>>,
       <<T.DATETIME, {T.TIMESTAMP, T.DATE, T.DATETIME}>>,
       <<T.TIME, {T.TIME}>>,
       <<T.BOOLEAN, {T.BOOL, T.BIT, T.BOOLEAN}>>,
       <<T.BOOL, {T.BOOLEAN, T.BIT, T.BOOL}>>,
       <<T.BLOB, {T.BINARY, T.VARBINARY, T.BLOB}>>,
       <<T.BINARY, {T.BLOB, T.VARBINARY, T.BINARY}>>
    >>

\* re.sub(r'\([^)]*\)', '', s): every "(...)" group removed, leftmost first;
\* a "(" with no ")" after it stays
\* The positions of s after position i that hold the character c
After(s, i, c) == {x \in DOMAIN s : x > i /\ s[x] = c}

Min(S) == CHOOSE x \in S : \A y \in S : x <= y

RECURSIVE RemoveParens(_)
RECURSIVE RemoveGroup(_, _)
RemoveParens(s) ==
    IF \E i \in After(s, 0, "(") : After(s, i, ")") # {}
    THEN RemoveGroup(s, Min({i \in After(s, 0, "(") : After(s, i, ")") # {}}))
    ELSE s

\* The group that opens at position i, up to the first ")" after it
RemoveGroup(s, i) ==
    Slice(s, 1, i) \o RemoveParens(Slice(s, Min(After(s, i, ")")) + 1, Len(s) + 1))

\* str.strip(), for the whitespace the model's strings can hold
RECURSIVE Strip(_)
Strip(s) ==
    IF s = <<>> THEN s
    ELSE IF Head(s) = " " THEN Strip(Tail(s))
    ELSE IF s[Len(s)] = " " THEN Strip(Slice(s, 1, Len(s)))
    ELSE s

_normalize_type(data_type) == Strip(RemoveParens(Upper(data_type)))

_are_types_identical(source_type, target_type) ==
    _normalize_type(source_type) = _normalize_type(target_type)

\* _check_type_compatibility from the normalised types on
NormalizedCompatible(source_normalized, target_normalized) ==
    IF source_normalized = target_normalized THEN TRUE
    ELSE IF \E r \in DOMAIN TYPE_COMPATIBILITY :
                TYPE_COMPATIBILITY[r][1] = source_normalized
    THEN \E r \in DOMAIN TYPE_COMPATIBILITY :
             /\ TYPE_COMPATIBILITY[r][1] = source_normalized
             /\ target_normalized \in TYPE_COMPATIBILITY[r][2]
    ELSE FALSE

_check_type_compatibility(source_type, target_type) ==
    NormalizedCompatible(_normalize_type(source_type), _normalize_type(target_type))

\* A conversion template "CAST({field} AS <as>)"; None is the absent template
None == [fn |-> "None"]

CastTemplate(as) == [fn |-> "CAST", arg |-> "{field}", as |-> as]

\* _generate_type_conversion from the normalised target type on
ConversionFor(target_norm) ==
    IF target_norm \in {T.VARCHAR, T.TEXT, T.CHAR, T.STRING} THEN CastTemplate(T.VARCHAR)
    ELSE IF target_norm \in {T.INTEGER, T.INT, T.BIGINT, T.SMALLINT} THEN CastTemplate(T.INTEGER)
    ELSE IF target_norm \in {T.NUMERIC, T.DECIMAL} THEN CastTemplate(T.NUMERIC)
    ELSE IF target_norm \in {T.FLOAT, T.DOUBLE} THEN CastTemplate(T.FLOAT)
    ELSE IF target_norm \in {T.DATE, T.TIMESTAMP, T.DATETIME} THEN CastTemplate(T.TIMESTAMP)
    ELSE IF target_norm \in {T.BOOLEAN, T.BOOL} THEN CastTemplate(T.BOOLEAN)
    ELSE CastTemplate(target_norm)

_generate_type_conversion(source_type, target_type) ==
    ConversionFor(_normalize_type(target_type))

(***************************************************************************)
(* SchemaMappingAgent: confidence.  A Field is a record                    *)
(* [name, data_type, nullable].                                            *)
(***************************************************************************)
\* if not type_compatible: confidence *= 0.3
IncompatiblePenalty(confidence, type_compatible) ==
    IF ~type_compatible THEN RMul(confidence, <<3, 10>>) ELSE confidence

\* if types identical: confidence = min(1.0, confidence * 1.2)
IdenticalBoost(confidence, source_field, target_field) ==
    IF _are_types_identical(source_field.data_type, target_field.data_type)
    THEN RMin(ROne, RMul(confidence, <<6, 5>>)) ELSE confidence

\* if source_field.nullable == target_field.nullable: min(1.0, confidence * 1.05)
NullableBoost(confidence, source_field, target_field) ==
    IF source_field.nullable = target_field.nullable
    THEN RMin(ROne, RMul(confidence, <<21, 20>>)) ELSE confidence

\* if not source_field.nullable and target_field.nullable: confidence *= 0.95
WideningPenalty(confidence, source_field, target_field) ==
    IF ~source_field.nullable /\ target_field.nullable
    THEN RMul(confidence, <<19, 20>>) ELSE confidence

\* the narrowing case charged like the widening one
NarrowingPenaltyAsWidening(confidence, source_field, target_field) ==
    IF source_field.nullable /\ ~target_field.nullable
    THEN RMul(confidence, <<19, 20>>) ELSE confidence

\* if source_field.nullable and not target_field.nullable: confidence *= 0.85
NarrowingPenalty(confidence, source_field, target_field) ==
    IF source_field.nullable /\ ~target_field.nullable
    THEN RMul(confidence, <<17, 20>>) ELSE confidence

\* The steps in the code's order; return min(1.0, max(0.0, confidence))
_calculate_confidence(name_similarity, type_compatible, source_field, target_field) ==
    RMin(ROne, RMax(RZero,
      NarrowingPenalty(
        WideningPenalty(
          NullableBoost(
            IdenticalBoost(
              IncompatiblePenalty(name_similarity, type_compatible),
              source_field, target_field),
            source_field, target_field),
          source_field, target_field),
        source_field, target_field)))

(***************************************************************************)
(* Data model (shared/models.py).  Timestamps and descriptions play no     *)
(* part in any operation modelled here and are left out of the records.    *)
(***************************************************************************)
Field(name, data_type, nullable) ==
    [name |-> name, data_type |-> data_type, nullable |-> nullable]

Schema(id, source_id, version, fields) ==
    [id |-> id, source_id |-> source_id, version |-> version, fields |-> fields]

\* MappingType's values
DIRECT == "direct"

TRANSFORMED == "transformed"

FieldMapping(source_field, target_field, transformation, confidence, mapping_type) ==
    [source_field |-> source_field, target_field |-> target_field,
     transformation |-> transformation, confidence |-> confidence,
     mapping_type |-> mapping_type]

SchemaChange(source_id, change_type, field_name, old_value, new_value) ==
    [source_id |-> source_id, change_type |-> change_type,
     field_name |-> field_name, old_value |-> old_value, new_value |-> new_value]

\* The absent old_value / new_value of a SchemaChange
NoValue == <<"None">>

Message(topic, event_type, payload) ==
    [topic |-> topic, event_type |-> event_type, payload |-> payload]

(***************************************************************************)
(* Python containers.  A dict keeps insertion order: a sequence of         *)
(* <<key, value>> with distinct keys.  The caches are dicts read by key    *)
(* only: functions whose domain is the set of keys present.                *)
(***************************************************************************)
DictHas(d, k) == \E i \in DOMAIN d : d[i][1] = k

DictGet(d, k) == d[CHOOSE i \in DOMAIN d : d[i][1] = k][2]

DictSet(d, k, v) ==
    IF DictHas(d, k)
    THEN [i \in DOMAIN d |-> IF d[i][1] = k THEN <<k, v>> ELSE d[i]]
    ELSE Append(d, <<k, v>>)

DictDel(d, k) == SelectSeq(d, LAMBDA e : e[1] # k)

DictValues(d) == [i \in DOMAIN d |-> d[i][2]]

\* {m.source_field: m for m in existing_mappings}
RECURSIVE MappingDict(_)
MappingDict(ms) ==
    IF ms = <<>> THEN <<>>
    ELSE DictSet(MappingDict(Slice(ms, 1, Len(ms))),
                 ms[Len(ms)].source_field, ms[Len(ms)])

CacheGet(cache, key, default) == IF key \in DOMAIN cache THEN cache[key] ELSE default

CachePut(cache, key, value) ==
    [k \in DOMAIN cache \cup {key} |-> IF k = key THEN value ELSE cache[k]]

\* next((f for f in fields if f.name == name), None): the position of the
\* first field of that name, 0 for None
FindField(fields, name) ==
    IF \E i \in DOMAIN fields : fields[i].name = name
    THEN CHOOSE i \in DOMAIN fields :
             /\ fields[i].name = name
             /\ \A j \in DOMAIN fields : fields[j].name = name => i <= j
    ELSE 0

(***************************************************************************)
(* SchemaMappingAgent.generate_mappings                                    *)
(***************************************************************************)
\* f"{source.id}_{target.id}"
CacheKey(source_id, target_id) == source_id \o <<"_">> \o target_id

\* BuildMapping that makes a mapping direct when the types are compatible
BuildMappingCompatibleDirect(source_field, target_field, confidence) ==
    IF ~_check_type_compatibility(source_field.data_type, target_field.data_type)
    THEN FieldMapping(source_field.name, target_field.name,
                      _generate_type_conversion(source_field.data_type,
                                                target_field.data_type),
                      confidence, TRANSFORMED)
    ELSE FieldMapping(source_field.name, target_field.name, None, confidence, DIRECT)

\* The Direct / Transformed decision and the FieldMapping built from it
BuildMapping(source_field, target_field, confidence) ==
    IF ~_are_types_identical(source_field.data_type, target_field.data_type)
    THEN FieldMapping(source_field.name, target_field.name,
                      _generate_type_conversion(source_field.data_type,
                                                target_field.data_type),
                      confidence, TRANSFORMED)
    ELSE FieldMapping(source_field.name, target_field.name, None, confidence, DIRECT)

FieldConfidence(source_field, target_field) ==
    _calculate_confidence(
        _calculate_name_similarity(source_field.name, target_field.name),
        _check_type_compatibility(source_field.data_type, target_field.data_type),
        source_field, target_field)

\* AlreadyMapped without the test: a claimed source field stays a candidate
AlreadyMappedIgnored(name, mapped_source_fields) == FALSE

\* if source_field.name in mapped_source_fields: continue
AlreadyMapped(name, mapped_source_fields) == name \in mapped_source_fields

\* BeatsBest with >= for >: on equal confidence the later source field wins
BeatsBestOrEquals(confidence, best_confidence) == ~RGt(best_confidence, confidence)

\* if confidence > best_confidence
BeatsBest(confidence, best_confidence) == RGt(confidence, best_confidence)

\* if best_mapping and best_confidence > 0.3
AcceptBest(best) == best.found /\ RGt(best.confidence, <<3, 10>>)

\* One candidate of the inner loop, its confidence computed: the new
\* (best_mapping, best_confidence)
Consider(source_field, target_field, confidence, best) ==
    IF BeatsBest(confidence, best.confidence)
    THEN [found |-> TRUE, confidence |-> confidence,
          mapping |-> BuildMapping(source_field, target_field, confidence)]
    ELSE best

\* The inner loop: for source_field in source.fields, from position i on
RECURSIVE BestForTarget(_, _, _, _, _)
BestForTarget(source_fields, i, target_field, mapped_source_fields, best) ==
    IF i > Len(source_fields) THEN best
    ELSE BestForTarget(source_fields, i + 1, target_field, mapped_source_fields,
             IF AlreadyMapped(source_fields[i].name, mapped_source_fields)
             THEN best
             ELSE Consider(source_fields[i], target_field,
                           FieldConfidence(source_fields[i], target_field), best))

\* The outer loop: for target_field in target.fields, from position j on,
\* each round starting from best_mapping = None, best_confidence = 0.0
RECURSIVE GenerateLoop(_, _, _, _, _)
RECURSIVE GenerateStep(_, _, _, _, _, _)
GenerateLoop(source_fields, target_fields, j, mappings, mapped_source_fields) ==
    IF j > Len(target_fields) THEN mappings
    ELSE GenerateStep(source_fields, target_fields, j, mappings, mapped_source_fields,
             BestForTarget(source_fields, 1, target_fields[j],
                           mapped_source_fields,
                           [found |-> FALSE, confidence |-> RZero, mapping |-> None]))

\* The end of one round of the outer loop, the inner loop's best known
GenerateStep(source_fields, target_fields, j, mappings, mapped_source_fields, best) ==
    IF AcceptBest(best)
    THEN GenerateLoop(source_fields, target_fields, j + 1,
                      Append(mappings, best.mapping),
                      mapped_source_fields \cup {best.mapping.source_field})
    ELSE GenerateLoop(source_fields, target_fields, j + 1,
                      mappings, mapped_source_fields)

GenerateMappingList(source, target) ==
    GenerateLoop(source.fields, target.fields, 1, <<>>, {})

MAPPING_EVENTS == "mapping.events"

\* _publish_mapping_event: the message it publishes
MappingGeneratedMessage(source_id, target_id, mappings) ==
    Message(MAPPING_EVENTS, "schema.mapping.generated",
        [source_id |-> source_id, target_id |-> target_id,
         mapping_count |-> Len(mappings),
         mappings |-> [i \in DOMAIN mappings |->
            [source_field |-> mappings[i].source_field,
             target_field |-> mappings[i].target_field,
             confidence |-> mappings[i].confidence,
             mapping_type |-> mappings[i].mapping_type,
             has_transformation |-> mappings[i].transformation # None]]])

\* _publish_mapping_update_event: the message it publishes
MappingUpdatedMessage(source_id, target_id, schema_changes, updated_mappings) ==
    Message(MAPPING_EVENTS, "schema.mapping.updated",
        [source_id |-> source_id, target_id |-> target_id,
         change_count |-> Len(schema_changes),
         mapping_count |-> Len(updated_mappings),
         changes |-> [i \in DOMAIN schema_changes |->
            [change_type |-> schema_changes[i].change_type,
             field_name |-> schema_changes[i].field_name]]])

\* The effect of one call: the value returned, the cache and the messages
\* published, in order
Outcome(result, cache, published) ==
    [result |-> result, cache |-> cache, published |-> published]

\* StoreAndPublishGenerated that publishes twice and leaves the cache alone
StoreAndPublishGeneratedTwice(cache, source, target, mappings) ==
    Outcome(mappings, cache,
            <<MappingGeneratedMessage(source.id, target.id, mappings),
              MappingGeneratedMessage(source.id, target.id, mappings)>>)

\* generate_mappings from the cache write on
StoreAndPublishGenerated(cache, source, target, mappings) ==
    Outcome(mappings,
            CachePut(cache, CacheKey(source.id, target.id), mappings),
            <<MappingGeneratedMessage(source.id, target.id, mappings)>>)

PlainGenerateMappings(cache, source, target) ==
    StoreAndPublishGenerated(cache, source, target,
                             GenerateMappingList(source, target))

(***************************************************************************)
(* SchemaMappingAgent.update_mappings                                      *)
(***************************************************************************)
\* [m.target_field for m in existing_mappings]: the targets an added field
\* may not take.  The list read is existing_mappings, the list as it was
\* read from the cache, not mapping_dict.
TakenTargets(existing_mappings, mapping_dict) ==
    {existing_mappings[i].target_field : i \in DOMAIN existing_mappings}

\* if confidence > 0.5
AcceptsNewMapping(confidence) == RGt(confidence, <<1, 2>>)

\* for target_field in target.fields, from position j on, with its break
RECURSIVE ProcessAddedScan(_, _, _, _, _)
RECURSIVE TryTarget(_, _, _, _, _, _)
ProcessAddedScan(new_field, target_fields, j, existing_mappings, mapping_dict) ==
    IF j > Len(target_fields) THEN mapping_dict
    ELSE IF target_fields[j].name \in TakenTargets(existing_mappings, mapping_dict)
    THEN ProcessAddedScan(new_field, target_fields, j + 1, existing_mappings, mapping_dict)
    ELSE TryTarget(new_field, target_fields, j, existing_mappings, mapping_dict,
                   FieldConfidence(new_field, target_fields[j]))

\* One free target, its confidence computed: map and break, or go on
TryTarget(new_field, target_fields, j, existing_mappings, mapping_dict, confidence) ==
    IF AcceptsNewMapping(confidence)
    THEN DictSet(mapping_dict, new_field.name,
                 BuildMapping(new_field, target_fields[j], confidence))
    ELSE ProcessAddedScan(new_field, target_fields, j + 1,
                          existing_mappings, mapping_dict)

\* ProcessAdded that maps the new field into an empty dict
ProcessAddedForgets(change, source, target, existing_mappings, mapping_dict) ==
    IF FindField(source.fields, change.field_name) = 0 THEN <<>>
    ELSE ProcessAddedScan(source.fields[FindField(source.fields, change.field_name)],
                          target.fields, 1, existing_mappings, <<>>)

\* if change.change_type == "added": new_field, then the scan of the targets
ProcessAdded(change, source, target, existing_mappings, mapping_dict) ==
    IF FindField(source.fields, change.field_name) = 0 THEN mapping_dict
    ELSE ProcessAddedScan(source.fields[FindField(source.fields, change.field_name)],
                          target.fields, 1, existing_mappings, mapping_dict)

\* ProcessRemoved without the del
ProcessRemovedKept(change, mapping_dict) == mapping_dict

\* elif change.change_type == "removed"
ProcessRemoved(change, mapping_dict) ==
    IF DictHas(mapping_dict, change.field_name)
    THEN DictDel(mapping_dict, change.field_name)
    ELSE mapping_dict

\* Recompute that drops the mapping when a field is not found
RecomputeOrDrop(change, source, target, mapping_dict, u, t) ==
    IF u = 0 \/ t = 0 THEN DictDel(mapping_dict, change.field_name)
    ELSE DictSet(mapping_dict, change.field_name,
             BuildMapping(source.fields[u], target.fields[t],
                 FieldConfidence(source.fields[u], target.fields[t])))

\* The recomputed mapping of a type_changed field: u and t are the positions
\* of updated_field and target_field, 0 for None
Recompute(change, source, target, mapping_dict, u, t) ==
    IF u = 0 \/ t = 0 THEN mapping_dict
    ELSE DictSet(mapping_dict, change.field_name,
             BuildMapping(source.fields[u], target.fields[t],
                 FieldConfidence(source.fields[u], target.fields[t])))

\* ProcessTypeChanged that leaves the mapping as it was
ProcessTypeChangedKept(change, source, target, mapping_dict) == mapping_dict

\* elif change.change_type == "type_changed"
ProcessTypeChanged(change, source, target, mapping_dict) ==
    IF ~DictHas(mapping_dict, change.field_name) THEN mapping_dict
    ELSE Recompute(change, source, target, mapping_dict,
             FindField(source.fields, change.field_name),
             FindField(target.fields,
                       DictGet(mapping_dict, change.field_name).target_field))

\* ProcessChange that recomputes the mapping of a modified field as it
\* does that of a type_changed one
ProcessChangeRetypesModified(change, source, target, existing_mappings, mapping_dict) ==
    IF change.change_type = "added"
    THEN ProcessAdded(change, source, target, existing_mappings, mapping_dict)
    ELSE IF change.change_type = "removed"
    THEN ProcessRemoved(change, mapping_dict)
    ELSE ProcessTypeChanged(change, source, target, mapping_dict)

\* One round of "for change in schema_changes"
ProcessChange(change, source, target, existing_mappings, mapping_dict) ==
    IF change.change_type = "added"
    THEN ProcessAdded(change, source, target, existing_mappings, mapping_dict)
    ELSE IF change.change_type = "removed"
    THEN ProcessRemoved(change, mapping_dict)
    ELSE IF change.change_type = "type_changed"
    THEN ProcessTypeChanged(change, source, target, mapping_dict)
    ELSE mapping_dict

RECURSIVE ProcessChanges(_, _, _, _, _, _)
ProcessChanges(schema_changes, c, source, target, existing_mappings, mapping_dict) ==
    IF c > Len(schema_changes) THEN mapping_dict
    ELSE ProcessChanges(schema_changes, c + 1, source, target, existing_mappings,
             ProcessChange(schema_changes[c], source, target,
                           existing_mappings, mapping_dict))

\* From the list read from the cache to the list written back
UpdatedMappingList(existing_mappings, schema_changes, source, target) ==
    DictValues(ProcessChanges(schema_changes, 1, source, target, existing_mappings,
                              MappingDict(existing_mappings)))

\* existing_mappings = self._mapping_cache.get(cache_key, [])
ReadExisting(cache, source, target) ==
    CacheGet(cache, CacheKey(source.id, target.id), <<>>)

\* update_mappings from the cache write on
StoreAndPublishUpdated(cache, schema_changes, source, target, updated_mappings) ==
    Outcome(updated_mappings,
            CachePut(cache, CacheKey(source.id, target.id), updated_mappings),
            <<MappingUpdatedMessage(source.id, target.id,
                                    schema_changes, updated_mappings)>>)

PlainUpdateMappings(cache, schema_changes, source, target) ==
    StoreAndPublishUpdated(cache, schema_changes, source, target,
        UpdatedMappingList(ReadExisting(cache, source, target),
                           schema_changes, source, target))

(***************************************************************************)
(* SchemaMappingAgentLangGraph: the same steps as nodes of a workflow      *)
(* graph.  validate_input, then _route_after_validation chooses the        *)
(* branch; both branches end in publish_results.  schema_changes is <<>>   *)
(* for the None that generate_mappings passes as for an empty list: the    *)
(* code reads only its truth value and, when it is true, its elements.     *)
(***************************************************************************)
\* _route_after_validation, for schemas that are present (no error)
_route_after_validation(schema_changes) ==
    IF schema_changes # <<>> THEN "update" ELSE "generate"

\* state["mappings"] and self._mapping_cache[cache_key], set by either node
NodeResult(cache, source, target, mappings) ==
    [mappings |-> mappings,
     cache |-> CachePut(cache, CacheKey(source.id, target.id), mappings)]

\* _generate_mappings_node: the mappings and the cache it leaves
_generate_mappings_node(cache, source, target) ==
    NodeResult(cache, source, target, GenerateMappingList(source, target))

\* _update_mappings_node: the mappings and the cache it leaves
_update_mappings_node(cache, schema_changes, source, target) ==
    NodeResult(cache, source, target,
        UpdatedMappingList(CacheGet(cache, CacheKey(source.id, target.id), <<>>),
                           schema_changes, source, target))

\* _publish_results: the message it publishes
_publish_results(mappings, source, target, schema_changes) ==
    IF schema_changes # <<>>
    THEN MappingUpdatedMessage(source.id, target.id, schema_changes, mappings)
    ELSE MappingGeneratedMessage(source.id, target.id, mappings)

\* The graph from the routed node's result on: publish_results, then END
PublishAndEnd(node, schema_changes, source, target) ==
    Outcome(node.mappings, node.cache,
            <<_publish_results(node.mappings, source, target, schema_changes)>>)

\* BaseAgent.execute on the compiled graph, from the initial state that
\* generate_mappings and update_mappings build
LangGraphExecute(cache, schema_changes, source, target) ==
    PublishAndEnd(
        IF _route_after_validation(schema_changes) = "update"
        THEN _update_mappings_node(cache, schema_changes, source, target)
        ELSE _generate_mappings_node(cache, source, target),
        schema_changes, source, target)

(***************************************************************************)
(* DataDiscoveryAgent.detect_schema_changes                                *)
(* (DataDiscoveryAgentLangGraph._detect_schema_changes is the same code).  *)
(***************************************************************************)
\* {f.name: f for f in schema.fields}
RECURSIVE FieldDict(_)
FieldDict(fields) ==
    IF fields = <<>> THEN <<>>
    ELSE DictSet(FieldDict(Slice(fields, 1, Len(fields))),
                 fields[Len(fields)].name, fields[Len(fields)])

\* f"nullable={flag}"
NullableText(flag) ==
    <<"n","u","l","l","a","b","l","e","=">> \o
    (IF flag THEN <<"T","r","u","e">> ELSE <<"F","a","l","s","e">>)

\* TypeDiffers on the normalised spellings of the two types
TypeDiffersNormalized(old_field, new_field) ==
    _normalize_type(old_field.data_type) # _normalize_type(new_field.data_type)

\* if old_field.data_type != new_field.data_type
TypeDiffers(old_field, new_field) == old_field.data_type # new_field.data_type

\* The old_value / new_value of a type_changed change
TypeValue(field) == field.data_type

\* for field_name in new_fields: if field_name not in old_fields
RECURSIVE AddedChanges(_, _, _, _)
AddedChanges(source_id, old_fields, new_fields, i) ==
    IF i > Len(new_fields) THEN <<>>
    ELSE (IF ~DictHas(old_fields, new_fields[i][1])
          THEN <<SchemaChange(source_id, "added", new_fields[i][1],
                              NoValue, new_fields[i][2].data_type)>>
          ELSE <<>>)
         \o AddedChanges(source_id, old_fields, new_fields, i + 1)

\* for field_name in old_fields: if field_name not in new_fields
RECURSIVE RemovedChanges(_, _, _, _)
RemovedChanges(source_id, old_fields, new_fields, i) ==
    IF i > Len(old_fields) THEN <<>>
    ELSE (IF ~DictHas(new_fields, old_fields[i][1])
          THEN <<SchemaChange(source_id, "removed", old_fields[i][1],
                              old_fields[i][2].data_type, NoValue)>>
          ELSE <<>>)
         \o RemovedChanges(source_id, old_fields, new_fields, i + 1)

\* The changes of one field present in both schemas: type first, then
\* nullability
FieldChanges(source_id, field_name, old_field, new_field) ==
    (IF TypeDiffers(old_field, new_field)
     THEN <<SchemaChange(source_id, "type_changed", field_name,
                         TypeValue(old_field), TypeValue(new_field))>>
     ELSE <<>>)
    \o
    (IF old_field.nullable # new_field.nullable
     THEN <<SchemaChange(source_id, "modified", field_name,
                         NullableText(old_field.nullable),
                         NullableText(new_field.nullable))>>
     ELSE <<>>)

\* for field_name in old_fields: if field_name in new_fields
RECURSIVE ModifiedChanges(_, _, _, _)
ModifiedChanges(source_id, old_fields, new_fields, i) ==
    IF i > Len(old_fields) THEN <<>>
    ELSE (IF DictHas(new_fields, old_fields[i][1])
          THEN FieldChanges(source_id, old_fields[i][1], old_fields[i][2],
                            DictGet(new_fields, old_fields[i][1]))
          ELSE <<>>)
         \o ModifiedChanges(source_id, old_fields, new_fields, i + 1)

\* DiffFieldDicts with the first two loops exchanged
DiffFieldDictsRemovedFirst(source_id, old_fields, new_fields) ==
    RemovedChanges(source_id, old_fields, new_fields, 1)
    \o AddedChanges(source_id, old_fields, new_fields, 1)
    \o ModifiedChanges(source_id, old_fields, new_fields, 1)

\* The three loops, in the order of the code
DiffFieldDicts(source_id, old_fields, new_fields) ==
    AddedChanges(source_id, old_fields, new_fields, 1)
    \o RemovedChanges(source_id, old_fields, new_fields, 1)
    \o ModifiedChanges(source_id, old_fields, new_fields, 1)

DiffSchemas(source_id, old_schema, new_schema) ==
    DiffFieldDicts(source_id, FieldDict(old_schema.fields),
                   FieldDict(new_schema.fields))

\* StoresSnapshot without the test: every call stores new_schema
StoresSnapshotAlways(changes) == TRUE

\* if changes: self._schema_cache[source_id] = new_schema
StoresSnapshot(changes) == changes # <<>>

\* ColdStart without the store
ColdStartNotStored(cache, source_id, new_schema) ==
    [changes |-> <<>>, cache |-> cache]

\* if source_id not in self._schema_cache: store new_schema, return []
ColdStart(cache, source_id, new_schema) ==
    [changes |-> <<>>, cache |-> CachePut(cache, source_id, new_schema)]

\* WarmStart that reports the changes and keeps the old snapshot
WarmStartKeepsSnapshot(cache, source_id, new_schema, changes) ==
    [changes |-> changes, cache |-> cache]

\* The end of a call that found a snapshot: the changes are known
WarmStart(cache, source_id, new_schema, changes) ==
    [changes |-> changes,
     cache |-> IF StoresSnapshot(changes)
               THEN CachePut(cache, source_id, new_schema)
               ELSE cache]

\* The changes returned and the schema cache left by one call
DetectSchemaChanges(cache, source_id, new_schema) ==
    IF source_id \notin DOMAIN cache
    THEN ColdStart(cache, source_id, new_schema)
    ELSE WarmStart(cache, source_id, new_schema,
                   DiffSchemas(source_id, cache[source_id], new_schema))

(***************************************************************************)
(* The inputs the operations are called with: field names, data types as   *)
(* the sources spell them, schemas and change lists.  Field names are      *)
(* unique within each schema, as the data model requires.                  *)
(***************************************************************************)
\* Field names
Names ==
    [id |-> <<"i","d">>,
     uid |-> <<"u","i","d">>,
     idx |-> <<"i","d","x">>,
     idy |-> <<"i","d","y">>,
     nm |-> <<"n","m">>,
     num |-> <<"n","u","m">>,
     nums |-> <<"n","u","m","s">>,
     qty |-> <<"q","t","y">>,
     em |-> <<"e","m">>]

\* Data types as a source may spell them
Spelled ==
    [bigint |-> <<"b","i","g","i","n","t">>,
     int |-> <<"i","n","t">>,
     char9 |-> <<"C","H","A","R","(","9",")">>,
     quoted |-> <<"\"","c","h","a","r","\"">>]

\* Schema ids
Ids ==
    [a |-> <<"a">>,
     a_b |-> <<"a","_","b">>,
     b_c |-> <<"b","_","c">>,
     c |-> <<"c">>]

SourceV1 ==
    Schema(Ids.a, Ids.a, 1,
           <<Field(Names.uid, T.INT, FALSE), Field(Names.idx, T.INT, FALSE),
             Field(Names.nm, Spelled.char9, TRUE)>>)

\* SourceV1 after a drift: idx removed, uid retyped, num and nums added
SourceV2 ==
    Schema(Ids.a, Ids.a, 2,
           <<Field(Names.uid, Spelled.bigint, FALSE), Field(Names.nm, Spelled.char9, TRUE),
             Field(Names.num, T.INT, TRUE), Field(Names.nums, T.INT, TRUE)>>)

TargetBC ==
    Schema(Ids.b_c, Ids.b_c, 1,
           <<Field(Names.id, T.BIGINT, FALSE), Field(Names.uid, T.INT, FALSE),
             Field(Names.num, T.INT, TRUE)>>)

\* The source schemas of the mapping calls: the two of id "a" and one of
\* id "a_b"
Sources ==
    {SourceV1, SourceV2,
     Schema(Ids.a_b, Ids.a_b, 1,
            <<Field(Names.idx, T.INT, FALSE), Field(Names.idy, T.INT, FALSE)>>)}

\* The target schemas: of id "b_c" and of id "c"
Targets ==
    {TargetBC,
     Schema(Ids.c, Ids.c, 1,
            <<Field(Names.id, T.INT, FALSE), Field(Names.qty, T.TEXT, TRUE)>>)}

\* The change lists of the update_mappings calls:
\*   the empty list;
\*   two added changes;
\*   a removed, a type_changed and a modified change;
\*   a batch that does not fit SourceV2: between a type_changed and an added
\*   change that do, a type_changed for idx and an added for em, which
\*   SourceV2 lacks;
\*   nullability changes only, of a field generate_mappings maps and of nm
ChangeLists ==
    {<<>>,
     <<SchemaChange(Ids.a, "added", Names.num, NoValue, T.INT),
       SchemaChange(Ids.a, "added", Names.nums, NoValue, T.INT)>>,
     <<SchemaChange(Ids.a, "removed", Names.idx, T.INT, NoValue),
       SchemaChange(Ids.a, "type_changed", Names.uid, T.INT, Spelled.bigint),
       SchemaChange(Ids.a, "modified", Names.nm, NullableText(TRUE), NullableText(FALSE))>>,
     <<SchemaChange(Ids.a, "type_changed", Names.uid, T.INT, Spelled.bigint),
       SchemaChange(Ids.a, "type_changed", Names.idx, T.INT, T.TEXT),
       SchemaChange(Ids.a, "added", Names.em, NoValue, T.TEXT),
       SchemaChange(Ids.a, "added", Names.num, NoValue, T.INT)>>,
     <<SchemaChange(Ids.a, "modified", Names.uid, NullableText(FALSE), NullableText(TRUE)),
       SchemaChange(Ids.a, "modified", Names.nm, NullableText(TRUE), NullableText(FALSE))>>}

\* The schemas the discovery agent is shown, all of source "a":
\*   SourceV1, and SourceV1 read again (the same fields in a new object);
\*   SourceV1 with two types spelled differently: the case of uid's, the
\*   size of nm's;
\*   SourceV2;
\*   SourceV1 after another drift: idx removed, idy and em added, uid made
\*   nullable, nm retyped and made not nullable, the fields reordered
DiscoveredSchemas ==
    {SourceV1,
     Schema(Ids.a, Ids.a, 3,
            <<Field(Names.uid, T.INT, FALSE), Field(Names.idx, T.INT, FALSE),
              Field(Names.nm, Spelled.char9, TRUE)>>),
     Schema(Ids.a, Ids.a, 4,
            <<Field(Names.uid, Spelled.int, FALSE), Field(Names.idx, T.INT, FALSE),
              Field(Names.nm, T.CHAR, TRUE)>>),
     SourceV2,
     Schema(Ids.a, Ids.a, 5,
            <<Field(Names.nm, T.TEXT, FALSE), Field(Names.idy, T.INT, FALSE),
              Field(Names.uid, T.INT, TRUE), Field(Names.em, T.TEXT, TRUE)>>)}

\* The number of calls made on one mapping agent in one behaviour
MaxCalls == 2

\* The number of calls made on one discovery agent in one behaviour
MaxDetect == 3

(***************************************************************************)
(* State.                                                                  *)
(*   impl           the class of the agent: "plain" is SchemaMappingAgent  *)
(*                  (DataDiscoveryAgent), "langgraph" is                   *)
(*                  SchemaMappingAgentLangGraph                            *)
(*                  (DataDiscoveryAgentLangGraph)                          *)
(*   mapping_cache  the mapping agent's _mapping_cache                     *)
(*   bus            the messages published on the agent's message bus     *)
(*   schema_cache   the discovery agent's _schema_cache                    *)
(*   subscribers    the _subscribers of an InMemoryMessageBus: per topic,  *)
(*                  the handlers in the order they subscribed              *)
(*   last           the last completed call: its arguments, what it        *)
(*                  returned and the state it started from; in the         *)
(*                  interleaved executions, the cache the threads start    *)
(*                  from                                                   *)
(*   calls          the number of completed calls                          *)
(*   pc, frame      per thread, for the interleaved executions: the place  *)
(*                  in the call and its arguments and local variables      *)
(***************************************************************************)
VARIABLES impl, mapping_cache, bus, schema_cache, subscribers, last, calls, pc, frame

vars == <<impl, mapping_cache, bus, schema_cache, subscribers, last, calls, pc, frame>>

EmptyCache == [k \in {} |-> <<>>]

Threads == {1, 2}

NoCall == [op |-> "none"]

Init ==
    /\ impl \in {"plain", "langgraph"}
    /\ mapping_cache = EmptyCache
    /\ bus = <<>>
    /\ schema_cache = EmptyCache
    /\ subscribers = EmptyCache
    /\ last = NoCall
    /\ calls = 0
    /\ pc = [t \in Threads |-> "idle"]
    /\ frame = [t \in Threads |-> NoCall]

(***************************************************************************)
(* The mapping agent, one call at a time.                                  *)
(***************************************************************************)
\* What one whole call on the mapping agent does to the agent, with what it
\* started from
CallEffects(op, schema_changes, source, target, out) ==
    /\ mapping_cache' = out.cache
    /\ bus' = bus \o out.published
    /\ last' = [op |-> op, schema_changes |-> schema_changes,
                source |-> source, target |-> target,
                result |-> out.result, published |-> out.published,
                cache_before |-> mapping_cache]
    /\ calls' = calls + 1
    /\ UNCHANGED <<impl, subscribers, schema_cache>>

\* One whole call on the mapping agent, with what it started from
CompleteCall(op, schema_changes, source, target, out) ==
    /\ CallEffects(op, schema_changes, source, target, out)
    /\ UNCHANGED <<pc, frame>>

\* generate_mappings of the agent's class, on the agent's cache
GenerateOutcome(source, target) ==
    IF impl = "plain"
    THEN PlainGenerateMappings(mapping_cache, source, target)
    ELSE LangGraphExecute(mapping_cache, <<>>, source, target)

\* update_mappings of the agent's class, on the agent's cache
UpdateOutcome(schema_changes, source, target) ==
    IF impl = "plain"
    THEN PlainUpdateMappings(mapping_cache, schema_changes, source, target)
    ELSE LangGraphExecute(mapping_cache, schema_changes, source, target)

generate_mappings(source, target) ==
    /\ calls < MaxCalls
    /\ CompleteCall("generate_mappings", <<>>, source, target,
                    GenerateOutcome(source, target))

update_mappings(schema_changes, source, target) ==
    /\ calls < MaxCalls
    /\ CompleteCall("update_mappings", schema_changes, source, target,
                    UpdateOutcome(schema_changes, source, target))

Next ==
    \/ \E source \in Sources, target \in Targets :
           generate_mappings(source, target)
    \/ \E schema_changes \in ChangeLists, source \in Sources, target \in Targets :
           update_mappings(schema_changes, source, target)

Spec == Init /\ [][Next]_vars

(***************************************************************************)
(* The discovery agent, one call at a time.                                *)
(***************************************************************************)
\* What one whole call of detect_schema_changes does to the agent, with what
\* it started from
DetectEffects(source_id, new_schema, out) ==
    /\ schema_cache' = out.cache
    /\ last' = [op |-> "detect_schema_changes", source_id |-> source_id,
                new_schema |-> new_schema, changes |-> out.changes,
                cache_before |-> schema_cache]
    /\ calls' = calls + 1
    /\ UNCHANGED <<impl, subscribers, mapping_cache, bus>>

\* One whole call of detect_schema_changes, with what it started from
detect_schema_changes(source_id, new_schema) ==
    /\ calls < MaxDetect
    /\ DetectEffects(source_id, new_schema,
                     DetectSchemaChanges(schema_cache, source_id, new_schema))
    /\ UNCHANGED <<pc, frame>>

NextDiscovery ==
    \E source_id \in {Ids.a, Ids.c}, new_schema \in DiscoveredSchemas :
        detect_schema_changes(source_id, new_schema)

SpecDiscovery == Init /\ [][NextDiscovery]_vars

(***************************************************************************)
(* The mapping agent called from two threads.  Nothing in the class        *)
(* orders two calls: a thread may be preempted between any two accesses    *)
(* to _mapping_cache and to the bus.  A call is cut at those accesses;     *)
(* what it computes on its local variables in between is joined to the     *)
(* access before it.                                                       *)
(*   generate_mappings  idle -> write -> publish -> done                   *)
(*   update_mappings    idle -> read -> write -> publish -> done           *)
(***************************************************************************)
\* The agent before the threads start: new, or after one generate_mappings
InitConcurrent ==
    /\ impl = "plain"
    /\ \E out \in {Outcome(<<>>, EmptyCache, <<>>),
                    PlainGenerateMappings(EmptyCache, SourceV1, TargetBC)} :
           /\ mapping_cache = out.cache
           /\ bus = out.published
           /\ last = [op |-> "start", cache_before |-> out.cache]
    /\ subscribers = EmptyCache
    /\ schema_cache = EmptyCache
    /\ calls = 0
    /\ pc = [t \in Threads |-> "idle"]
    /\ frame = [t \in Threads |-> NoCall]

Call(op, schema_changes, source, target, mappings) ==
    [op |-> op, schema_changes |-> schema_changes, source |-> source,
     target |-> target, mappings |-> mappings]

\* generate_mappings up to the cache write: the two loops, on local variables
BeginGenerate(t, source, target) ==
    /\ pc[t] = "idle"
    /\ pc' = [pc EXCEPT ![t] = "write"]
    /\ frame' = [frame EXCEPT ![t] =
           Call("generate_mappings", <<>>, source, target,
                GenerateMappingList(source, target))]
    /\ UNCHANGED <<impl, subscribers, mapping_cache, bus, schema_cache, last, calls>>

\* update_mappings up to the cache read
BeginUpdate(t, schema_changes, source, target) ==
    /\ pc[t] = "idle"
    /\ pc' = [pc EXCEPT ![t] = "read"]
    /\ frame' = [frame EXCEPT ![t] =
           Call("update_mappings", schema_changes, source, target, <<>>)]
    /\ UNCHANGED <<impl, subscribers, mapping_cache, bus, schema_cache, last, calls>>

\* existing_mappings = self._mapping_cache.get(cache_key, []), and the loop
\* over the changes on mapping_dict
ReadCache(t) ==
    /\ pc[t] = "read"
    /\ pc' = [pc EXCEPT ![t] = "write"]
    /\ frame' = [frame EXCEPT ![t].mappings =
           UpdatedMappingList(
               ReadExisting(mapping_cache, frame[t].source, frame[t].target),
               frame[t].schema_changes, frame[t].source, frame[t].target)]
    /\ UNCHANGED <<impl, subscribers, mapping_cache, bus, schema_cache, last, calls>>

\* self._mapping_cache[cache_key] = mappings
WriteCache(t) ==
    /\ pc[t] = "write"
    /\ pc' = [pc EXCEPT ![t] = "publish"]
    /\ mapping_cache' =
           CachePut(mapping_cache,
                    CacheKey(frame[t].source.id, frame[t].target.id),
                    frame[t].mappings)
    /\ UNCHANGED <<impl, subscribers, bus, schema_cache, last, calls, frame>>

\* _publish_mapping_event / _publish_mapping_update_event, and the return
PublishEvent(t) ==
    /\ pc[t] = "publish"
    /\ pc' = [pc EXCEPT ![t] = "done"]
    /\ bus' = Append(bus,
           IF frame[t].op = "generate_mappings"
           THEN MappingGeneratedMessage(frame[t].source.id, frame[t].target.id,
                                        frame[t].mappings)
           ELSE MappingUpdatedMessage(frame[t].source.id, frame[t].target.id,
                                      frame[t].schema_changes, frame[t].mappings))
    /\ calls' = calls + 1
    /\ UNCHANGED <<impl, subscribers, mapping_cache, schema_cache, last, frame>>

\* Every call is for the same pair of ids: the two sources of id "a" and
\* the target of id "b_c"
NextConcurrent ==
    \/ \E t \in Threads, source \in {SourceV1, SourceV2}, target \in {TargetBC} :
           BeginGenerate(t, source, target)
    \/ \E t \in Threads, schema_changes \in ChangeLists,
          source \in {SourceV1, SourceV2}, target \in {TargetBC} :
           BeginUpdate(t, schema_changes, source, target)
    \/ \E t \in Threads : ReadCache(t)
    \/ \E t \in Threads : WriteCache(t)
    \/ \E t \in Threads : PublishEvent(t)

SpecConcurrent == InitConcurrent /\ [][NextConcurrent]_vars

(***************************************************************************)
(* SchemaMappingAgent.generate_transformation.  A template is kept as the  *)
(* record _generate_type_conversion built, or as [fn |-> "CALL", name,     *)
(* arg] for a template "<name>({field})" of another make; the code works   *)
(* on its text.  A str that may be None is a character sequence or         *)
(* NoValue.                                                                *)
(***************************************************************************)
\* The text of a template: "CAST({field} AS <as>)" or "<name>({field})"
TemplateText(transformation) ==
    IF transformation.fn = "CAST"
    THEN <<"C","A","S","T","(">> \o <<"{","f","i","e","l","d","}">> \o <<" ","A","S"," ">> \o transformation.as \o <<")">>
    ELSE transformation.name \o <<"(">> \o <<"{","f","i","e","l","d","}">> \o <<")">>

\* str.replace(old, new): every occurrence, from the left, none overlapping
RECURSIVE Replace(_, _, _)
Replace(s, old, new) ==
    IF Len(s) < Len(old) \/ old = <<>> THEN s
    ELSE IF Slice(s, 1, Len(old) + 1) = old
    THEN new \o Replace(Slice(s, Len(old) + 1, Len(s) + 1), old, new)
    ELSE <<s[1]>> \o Replace(Slice(s, 2, Len(s) + 1), old, new)

\* The longest run of characters of a class that starts at position i
RECURSIVE RunFrom(_, _, _)
RunFrom(s, i, class) ==
    IF i > Len(s) \/ s[i] \notin class THEN <<>>
    ELSE <<s[i]>> \o RunFrom(s, i + 1, class)

\* re.search(r'AS\s+(\w+)', s, re.IGNORECASE): group 1 of the leftmost
\* match, <<>> when there is no match
SearchAsWord(s) ==
    LET Word(i) ==
            RunFrom(s, i + 2 + Len(RunFrom(s, i + 2, {" ", "\t", "\n"})),
                    {Letters[k] : k \in DOMAIN Letters}
                        \cup {Caps[k] : k \in DOMAIN Caps}
                        \cup {"0","1","2","3","4","5","6","7","8","9","_"})
        Hits == {i \in 1..(Len(s) - 2) :
                     /\ UpperChar(s[i]) = "A"
                     /\ UpperChar(s[i + 1]) = "S"
                     /\ s[i + 2] \in {" ", "\t", "\n"}
                     /\ Word(i) # <<>>}
    IN  IF Hits = {} THEN <<>>
        ELSE Word(CHOOSE i \in Hits : \A j \in Hits : i <= j)

\* conversions.get(target_type, f"row['{field_name}']")
_generate_python_conversion(field_name, target_type) ==
    IF target_type \in {T.INTEGER, T.INT, T.BIGINT, T.SMALLINT}
    THEN <<"i","n","t","(","r","o","w","[","'">> \o field_name \o <<"'","]",")">>
    ELSE IF target_type \in {T.FLOAT, T.DOUBLE}
    THEN <<"f","l","o","a","t","(","r","o","w","[","'">> \o field_name \o <<"'","]",")">>
    ELSE IF target_type \in {T.VARCHAR, T.TEXT, T.STRING}
    THEN <<"s","t","r","(","r","o","w","[","'">> \o field_name \o <<"'","]",")">>
    ELSE IF target_type \in {T.BOOLEAN, T.BOOL}
    THEN <<"b","o","o","l","(","r","o","w","[","'">> \o field_name \o <<"'","]",")">>
    ELSE <<"r","o","w","[","'">> \o field_name \o <<"'","]">>

\* python_logic of a Transformed mapping with a template of the given text.
\* Only SchemaMappingAgent tests 'CAST' in mapping.transformation.upper().
PythonLogic(class, text, source_field) ==
    IF class = "plain" /\ ~IsSubstring(<<"C","A","S","T">>, Upper(text)) THEN NoValue
    ELSE IF SearchAsWord(text) = <<>> THEN NoValue
    ELSE _generate_python_conversion(source_field, Upper(SearchAsWord(text)))

\* generate_transformation of either class: the TransformationLogic
GenerateTransformation(class, mapping) ==
    IF mapping.mapping_type = DIRECT
    THEN [mapping |-> mapping,
          sql_logic |-> mapping.source_field,
          python_logic |-> <<"r","o","w","[","'">> \o mapping.source_field \o <<"'","]">>,
          description |-> <<"D","i","r","e","c","t"," ","m","a","p","p","i","n","g"," ","f","r","o","m"," ">> \o mapping.source_field
                              \o <<" ","t","o"," ">> \o mapping.target_field]
    ELSE IF mapping.mapping_type = TRANSFORMED
    THEN IF mapping.transformation = None
         THEN [mapping |-> mapping, sql_logic |-> NoValue,
               python_logic |-> NoValue, description |-> <<>>]
         ELSE [mapping |-> mapping,
               sql_logic |-> Replace(TemplateText(mapping.transformation),
                                     <<"{","f","i","e","l","d","}">>, mapping.source_field),
               python_logic |-> PythonLogic(class, TemplateText(mapping.transformation),
                                            mapping.source_field),
               description |-> <<"T","y","p","e"," ","c","o","n","v","e","r","s","i","o","n"," ","f","r","o","m"," ">> \o mapping.source_field
                                   \o <<" ","t","o"," ">> \o mapping.target_field]
    ELSE [mapping |-> mapping,
          sql_logic |-> <<"-","-"," ","C","u","s","t","o","m"," ","l","o","g","i","c"," ","n","e","e","d","e","d"," ","f","o","r"," ">> \o mapping.target_field,
          python_logic |-> <<"#"," ","C","u","s","t","o","m"," ","l","o","g","i","c"," ","n","e","e","d","e","d"," ","f","o","r"," ">> \o mapping.target_field,
          description |-> <<"D","e","r","i","v","e","d"," ","f","i","e","l","d"," ">> \o mapping.target_field
                              \o <<" ","r","e","q","u","i","r","e","s"," ","c","u","s","t","o","m"," ","l","o","g","i","c">>]

(***************************************************************************)
(* The scoring helpers of the mapping agent and generate_transformation,   *)
(* called on their own: `last` holds the arguments and the value returned. *)
(* They read and write no state of the agent, so a behaviour is one call.  *)
(***************************************************************************)
\* Every type name of the compatibility matrix, and four other spellings
TypePool == {T[name] : name \in DOMAIN T} \cup {Spelled[name] : name \in DOMAIN Spelled}

check_type_compatibility(source_type, target_type) ==
    /\ last = NoCall
    /\ last' = [op |-> "_check_type_compatibility",
                source_type |-> source_type, target_type |-> target_type,
                result |-> _check_type_compatibility(source_type, target_type)]
    /\ UNCHANGED <<impl, subscribers, mapping_cache, bus, schema_cache, calls, pc, frame>>

\* Field names: those of the schemas and five others
NamePool ==
    {Names[name] : name \in DOMAIN Names}
        \cup {<<"t","i","d","e">>, <<"d","i","e","t">>, <<"u","_","i","d">>,
              <<"I","d">>, <<"i","d","e","n","t","i","f","i","e","r">>,
              <<"i","-","d">>, <<"_">>, <<"q","u","a","n","t","i","t","y">>}

calculate_name_similarity(name1, name2) ==
    /\ last = NoCall
    /\ last' = [op |-> "_calculate_name_similarity",
                name1 |-> name1, name2 |-> name2,
                result |-> _calculate_name_similarity(name1, name2)]
    /\ UNCHANGED <<impl, subscribers, mapping_cache, bus, schema_cache, calls, pc, frame>>

\* Mappings as the agents build them, for every target type, and mappings
\* a caller made: Transformed with a template that is no cast, with a cast
\* to CHAR and with no template, Derived, and Direct with a template
MappingPool ==
    {BuildMapping(Field(Names.uid, source_type, FALSE),
                  Field(Names.id, target_type, FALSE), <<9, 10>>) :
         source_type \in {T.INT, T.TEXT}, target_type \in TypePool}
    \cup {FieldMapping(Names.num, Names.qty, transformation, <<9, 10>>, mapping_type) :
              transformation \in {None, CastTemplate(T.CHAR),
                                  [fn |-> "CALL", name |-> <<"U","P","P","E","R">>,
                                   arg |-> "{field}"]},
              mapping_type \in {DIRECT, TRANSFORMED, "derived"}}

generate_transformation(mapping) ==
    /\ last = NoCall
    /\ last' = [op |-> "generate_transformation", mapping |-> mapping,
                result |-> GenerateTransformation(impl, mapping)]
    /\ UNCHANGED <<impl, subscribers, mapping_cache, bus, schema_cache, calls, pc, frame>>

\* similarity from 0 to 1, the flag, and two fields of every type and
\* nullability; the flag need not be what the types give
calculate_confidence(name_similarity, type_compatible, source_field, target_field) ==
    /\ last = NoCall
    /\ last' = [op |-> "_calculate_confidence",
                name_similarity |-> name_similarity,
                type_compatible |-> type_compatible,
                source_field |-> source_field, target_field |-> target_field,
                result |-> _calculate_confidence(name_similarity, type_compatible,
                                                 source_field, target_field)]
    /\ UNCHANGED <<impl, subscribers, mapping_cache, bus, schema_cache, calls, pc, frame>>

generate_type_conversion(source_type, target_type) ==
    /\ last = NoCall
    /\ last' = [op |-> "_generate_type_conversion",
                source_type |-> source_type, target_type |-> target_type,
                result |-> _generate_type_conversion(source_type, target_type)]
    /\ UNCHANGED <<impl, subscribers, mapping_cache, bus, schema_cache, calls, pc, frame>>

NextScoring ==
    \/ \E source_type \in TypePool, target_type \in TypePool :
           check_type_compatibility(source_type, target_type)
    \/ \E name1 \in NamePool, name2 \in NamePool :
           calculate_name_similarity(name1, name2)
    \/ \E mapping \in MappingPool : generate_transformation(mapping)
    \/ \E name_similarity \in {<<0, 1>>, <<1, 4>>, <<4, 5>>, <<9, 10>>, <<1, 1>>},
          type_compatible \in {TRUE, FALSE},
          source_type \in {T.INT, T.TEXT, Spelled.int},
          target_type \in {T.INT, T.BIGINT},
          source_nullable \in {TRUE, FALSE}, target_nullable \in {TRUE, FALSE} :
           calculate_confidence(name_similarity, type_compatible,
                                Field(Names.uid, source_type, source_nullable),
                                Field(Names.id, target_type, target_nullable))
    \/ \E source_type \in TypePool, target_type \in TypePool :
           generate_type_conversion(source_type, target_type)

SpecScoring == Init /\ [][NextScoring]_vars

(***************************************************************************)
(* The two agents used together by one caller (thread 1): it generates     *)
(* the mappings of a source schema, lets the discovery agent see that      *)
(* schema and then a later schema of the same source, and feeds the        *)
(* changes reported to update_mappings.  frame[1] holds the caller's       *)
(* local variables.                                                        *)
(*   idle -> generated -> snapshot -> detected -> done                     *)
(***************************************************************************)
\* Every schema of the inputs, and SourceV1 after uid was retyped to TEXT
AllSources ==
    Sources \cup DiscoveredSchemas
        \cup {Schema(Ids.a, Ids.a, 6,
                      <<Field(Names.uid, T.TEXT, FALSE), Field(Names.idx, T.INT, FALSE),
                        Field(Names.nm, Spelled.char9, TRUE)>>)}

\* mappings = mapping_agent.generate_mappings(s1, target)
PipeGenerate(source, target) ==
    /\ pc[1] = "idle"
    /\ CallEffects("generate_mappings", <<>>, source, target,
                   GenerateOutcome(source, target))
    /\ pc' = [pc EXCEPT ![1] = "generated"]
    /\ frame' = [frame EXCEPT ![1] = [op |-> "pipeline", s1 |-> source,
                                      s2 |-> source, target |-> target]]

\* discovery_agent.detect_schema_changes(s1.id, s1): the first sight
PipeSnapshot ==
    /\ pc[1] = "generated"
    /\ DetectEffects(frame[1].s1.id, frame[1].s1,
           DetectSchemaChanges(schema_cache, frame[1].s1.id, frame[1].s1))
    /\ pc' = [pc EXCEPT ![1] = "snapshot"]
    /\ UNCHANGED frame

\* changes = discovery_agent.detect_schema_changes(s1.id, s2)
PipeDetect(s2) ==
    /\ pc[1] = "snapshot"
    /\ s2.id = frame[1].s1.id
    /\ DetectEffects(s2.id, s2, DetectSchemaChanges(schema_cache, s2.id, s2))
    /\ pc' = [pc EXCEPT ![1] = "detected"]
    /\ frame' = [frame EXCEPT ![1].s2 = s2]

\* mapping_agent.update_mappings(changes, s2, target)
PipeUpdate ==
    /\ pc[1] = "detected"
    /\ CallEffects("update_mappings", last.changes, frame[1].s2, frame[1].target,
                   UpdateOutcome(last.changes, frame[1].s2, frame[1].target))
    /\ pc' = [pc EXCEPT ![1] = "done"]
    /\ UNCHANGED frame

NextPipeline ==
    \/ \E source \in AllSources, target \in Targets : PipeGenerate(source, target)
    \/ PipeSnapshot
    \/ \E s2 \in AllSources : PipeDetect(s2)
    \/ PipeUpdate

SpecPipeline == Init /\ [][NextPipeline]_vars

(***************************************************************************)
(* InMemoryMessageBus on its own: handlers subscribe to topics, messages   *)
(* are published, topics are unsubscribed and the bus is closed, in any    *)
(* order.  A handler is known by its name; calling it is recorded in the   *)
(* `invoked` field of `last`, call by call.                                *)
(***************************************************************************)
\* The number of handlers in the list of one topic
MaxSubscriptions == 3

\* DeliverTo that calls the handlers last subscribed first
DeliverToReversed(handlers, message) ==
    [i \in DOMAIN handlers |->
        [handler |-> handlers[Len(handlers) + 1 - i], message |-> message]]

\* for handler in self._subscribers[topic]: handler(message)
DeliverTo(handlers, message) ==
    [i \in DOMAIN handlers |-> [handler |-> handlers[i], message |-> message]]

subscribe(topic, handler) ==
    /\ Len(CacheGet(subscribers, topic, <<>>)) < MaxSubscriptions
    /\ subscribers' = CachePut(subscribers, topic,
                               Append(CacheGet(subscribers, topic, <<>>), handler))
    /\ last' = [op |-> "subscribe", topic |-> topic, handler |-> handler,
                before |-> subscribers]
    /\ UNCHANGED <<impl, mapping_cache, bus, schema_cache, calls, pc, frame>>

publish(topic, message) ==
    /\ last' = [op |-> "publish", topic |-> topic, message |-> message,
                before |-> subscribers,
                invoked |-> IF topic \in DOMAIN subscribers
                            THEN DeliverTo(subscribers[topic], message)
                            ELSE <<>>]
    /\ UNCHANGED <<impl, mapping_cache, bus, schema_cache, subscribers, calls, pc, frame>>

unsubscribe(topic) ==
    /\ subscribers' = IF topic \in DOMAIN subscribers
                      THEN [k \in DOMAIN subscribers \ {topic} |-> subscribers[k]]
                      ELSE subscribers
    /\ last' = [op |-> "unsubscribe", topic |-> topic, before |-> subscribers]
    /\ UNCHANGED <<impl, mapping_cache, bus, schema_cache, calls, pc, frame>>

close ==
    /\ subscribers' = EmptyCache
    /\ last' = [op |-> "close", before |-> subscribers]
    /\ UNCHANGED <<impl, mapping_cache, bus, schema_cache, calls, pc, frame>>

NextBus ==
    \/ \E topic \in {MAPPING_EVENTS, "schema.events"}, handler \in {"on_a", "on_b"} :
           subscribe(topic, handler)
    \/ \E topic \in {MAPPING_EVENTS, "schema.events"},
          message \in {[event_type |-> "schema.mapping.generated"],
                       [event_type |-> "schema.changed"]} :
           publish(topic, message)
    \/ \E topic \in {MAPPING_EVENTS, "schema.events"} : unsubscribe(topic)
    \/ close

SpecBus == Init /\ [][NextBus]_vars

(***************************************************************************)
(* The catalog update of the discovery agents.                             *)
(* DataDiscoveryAgent.update_catalog is given the metadata of a source.    *)
(* DataDiscoveryAgentLangGraph.discover_and_catalog runs the workflow      *)
(*   discover_sources -> extract_metadata -> detect_changes                *)
(*                    -> update_catalog -> publish_events                  *)
(* on a state dict; its first two nodes ask the data source, and what the  *)
(* source answers (an exception or a value) is an input of the call.  The  *)
(* update_catalog node only appends to state["messages"], which nothing    *)
(* reads.  A metadata is a record [source_id, schema, row_count,           *)
(* size_bytes]; the error of a state is "None" or the text recorded.       *)
(***************************************************************************)
\* The number of catalog calls made on one discovery agent in one behaviour
MaxCatalog == 2

\* event_payload, for the metadata and the changes detected
EventPayload(metadata, changes) ==
    [source_id |-> metadata.source_id,
     schema_version |-> metadata.schema.version,
     row_count |-> metadata.row_count,
     size_bytes |-> metadata.size_bytes,
     field_count |-> Len(metadata.schema.fields),
     schema_changes |-> [i \in DOMAIN changes |->
        [change_type |-> changes[i].change_type,
         field_name |-> changes[i].field_name,
         old_value |-> changes[i].old_value,
         new_value |-> changes[i].new_value]]]

\* update_catalog after detect_schema_changes returned: `message` goes to
\* discovery.events and, if changes, `message` again to schema.events; the
\* schema_change_message built in between is not passed to publish
UpdateCatalog(metadata, detected) ==
    [error |-> "None", extracted_metadata |-> metadata,
     schema_changes |-> detected.changes, result |-> None,
     cache |-> detected.cache,
     published |->
        <<Message("discovery.events", "data.discovery.completed",
                  EventPayload(metadata, detected.changes))>>
        \o (IF detected.changes # <<>>
            THEN <<Message("schema.events", "data.discovery.completed",
                           EventPayload(metadata, detected.changes))>>
            ELSE <<>>)]

\* What one whole catalog call does to the agent, with what it started
\* from; final is the last state of the call
CatalogEffects(op, final) ==
    /\ schema_cache' = final.cache
    /\ bus' = bus \o final.published
    /\ last' = [op |-> op, error |-> final.error,
                metadata |-> final.extracted_metadata,
                changes |-> final.schema_changes,
                result |-> final.result,
                published |-> final.published,
                cache_before |-> schema_cache]
    /\ calls' = calls + 1
    /\ UNCHANGED <<impl, subscribers, mapping_cache, pc, frame>>

update_catalog(metadata) ==
    /\ impl = "plain"
    /\ calls < MaxCatalog
    /\ CatalogEffects("update_catalog",
           UpdateCatalog(metadata,
               DetectSchemaChanges(schema_cache, metadata.source_id, metadata.schema)))

\* _discover_sources_node; discovered is what _discover_sources does:
\* [raised, value], value the ids of the sources found
_discover_sources_node(state, discovered) ==
    IF state.connection_config = None
    THEN [state EXCEPT !.error = "No connection configuration provided"]
    ELSE IF discovered.raised
    THEN [state EXCEPT !.error = "Discovery failed"]
    ELSE [state EXCEPT !.discovered_sources = discovered.value]

\* _extract_metadata_node that records the failure and hands on what was
\* read of the source before it
_extract_metadata_nodeKeepsPartial(state, extracted) ==
    IF state.discovered_sources = <<>>
    THEN [state EXCEPT !.error = "No sources to extract metadata from"]
    ELSE [state EXCEPT
            !.error = IF extracted.raised THEN "Metadata extraction failed" ELSE @,
            !.extracted_metadata =
                [source_id |-> state.discovered_sources[1],
                 schema |-> Schema(state.discovered_sources[1] \o
                                       <<"_","s","c","h","e","m","a","_","v","1">>,
                                   state.discovered_sources[1], 1, extracted.fields),
                 row_count |-> extracted.row_count,
                 size_bytes |-> extracted.size_bytes]]

\* _extract_metadata_node, on the first source; extracted is what
\* _extract_metadata does: [raised, fields, row_count, size_bytes].  The
\* schema is built as the extractors build it: id "<source id>_schema_v1",
\* version 1
_extract_metadata_node(state, extracted) ==
    IF state.discovered_sources = <<>>
    THEN [state EXCEPT !.error = "No sources to extract metadata from"]
    ELSE IF extracted.raised
    THEN [state EXCEPT !.error = "Metadata extraction failed"]
    ELSE [state EXCEPT !.extracted_metadata =
            [source_id |-> state.discovered_sources[1],
             schema |-> Schema(state.discovered_sources[1] \o
                                   <<"_","s","c","h","e","m","a","_","v","1">>,
                               state.discovered_sources[1], 1, extracted.fields),
             row_count |-> extracted.row_count,
             size_bytes |-> extracted.size_bytes]]

\* _detect_changes_node; _detect_schema_changes raises nothing on a schema
\* that the extractors built
_detect_changes_node(state) ==
    IF state.extracted_metadata = None THEN state
    ELSE [state EXCEPT
            !.schema_changes =
                DetectSchemaChanges(state.cache, state.extracted_metadata.source_id,
                                    state.extracted_metadata.schema).changes,
            !.cache =
                DetectSchemaChanges(state.cache, state.extracted_metadata.source_id,
                                    state.extracted_metadata.schema).cache]

\* _publish_events_node
_publish_events_node(state) ==
    IF state.extracted_metadata = None THEN state
    ELSE [state EXCEPT
            !.published = @
                \o <<Message("discovery.events", "data.discovery.completed",
                             EventPayload(state.extracted_metadata,
                                          state.schema_changes))>>
                \o (IF state.schema_changes # <<>>
                    THEN <<Message("schema.events", "schema.changed",
                              [source_id |-> state.extracted_metadata.source_id,
                               changes |-> EventPayload(state.extracted_metadata,
                                               state.schema_changes).schema_changes])>>
                    ELSE <<>>),
            !.result = EventPayload(state.extracted_metadata, state.schema_changes)]

\* discover_and_catalog: the graph run on initial_state; it raises if the
\* final state has an error and returns the result otherwise.
\* _discover_sources raises for a source type it does not know
discover_and_catalog(connection_config, discovered, extracted) ==
    /\ impl = "langgraph"
    /\ calls < MaxCatalog
    /\ CatalogEffects("discover_and_catalog",
         _publish_events_node(
           _detect_changes_node(
             _extract_metadata_node(
               _discover_sources_node(
                 [connection_config |-> connection_config,
                  error |-> "None", result |-> None,
                  discovered_sources |-> <<>>, extracted_metadata |-> None,
                  schema_changes |-> <<>>,
                  cache |-> schema_cache, published |-> <<>>],
                 IF connection_config # None
                    /\ connection_config.source_type = "invalid_type"
                 THEN [raised |-> TRUE, value |-> <<>>]
                 ELSE discovered),
               extracted))))

\* update_catalog with the metadata of every schema the discovery agent is
\* shown; discover_and_catalog with no, an unknown and a known source type,
\* a source that fails, has no table, one table or two, and an extraction
\* that fails or reads one of the schemas
NextCatalog ==
    \/ \E schema \in DiscoveredSchemas :
           update_catalog([source_id |-> schema.source_id, schema |-> schema,
                           row_count |-> 50, size_bytes |-> 4096])
    \/ \E connection_config \in {None, [source_type |-> "invalid_type"],
                                       [source_type |-> "postgresql"]},
          discovered \in {[raised |-> TRUE, value |-> <<>>],
                          [raised |-> FALSE, value |-> <<>>],
                          [raised |-> FALSE, value |-> <<Ids.a>>],
                          [raised |-> FALSE, value |-> <<Ids.c, Ids.a>>]},
          raised \in {TRUE, FALSE},
          schema \in DiscoveredSchemas :
           discover_and_catalog(connection_config, discovered,
               [raised |-> raised, fields |-> schema.fields,
                row_count |-> 50, size_bytes |-> 4096])

SpecCatalog == Init /\ [][NextCatalog]_vars

(***************************************************************************)
(* Properties.  Those of the mapping agent are stated on `last`, the call  *)
(* just completed, under Spec; those of the discovery agent likewise under *)
(* SpecDiscovery; the one on interleaved calls under SpecConcurrent.       *)
(***************************************************************************)
PairwiseDistinct(seq) ==
    \A i \in DOMAIN seq, j \in DOMAIN seq : i # j => seq[i] # seq[j]

TargetFieldsOf(mappings) == [i \in DOMAIN mappings |-> mappings[i].target_field]

SourceFieldsOf(mappings) == [i \in DOMAIN mappings |-> mappings[i].source_field]

FieldNamesOf(schema) == [i \in DOMAIN schema.fields |-> schema.fields[i].name]

UniqueNames(schema) == PairwiseDistinct(FieldNamesOf(schema))

LastIsGenerate ==
    /\ last.op = "generate_mappings"
    /\ UniqueNames(last.source)
    /\ UniqueNames(last.target)

\* C1: in the list generate_mappings returns for schemas with unique field
\* names, no two mappings have the same target_field and no two have the
\* same source_field.
C1_GeneratedFieldsUnique ==
    LastIsGenerate =>
        /\ PairwiseDistinct(TargetFieldsOf(last.result))
        /\ PairwiseDistinct(SourceFieldsOf(last.result))

\* C1: a generate_mappings call that returned two mappings or more
C1_Witness == LastIsGenerate /\ Len(last.result) >= 2

\* C2: update_mappings gives an added field only a target that no mapping
\* of the current set has, so a cached set with pairwise distinct targets
\* is followed by a returned set with pairwise distinct targets.
C2_UpdatedTargetsUnique ==
    (/\ last.op = "update_mappings"
     /\ PairwiseDistinct(TargetFieldsOf(
            ReadExisting(last.cache_before, last.source, last.target))))
    => PairwiseDistinct(TargetFieldsOf(last.result))

\* The cache one whole call leaves
CacheAfter(cache, call) ==
    IF call.op = "generate_mappings"
    THEN PlainGenerateMappings(cache, call.source, call.target).cache
    ELSE PlainUpdateMappings(cache, call.schema_changes,
                             call.source, call.target).cache

\* The cache after the two calls, one after the other, from the cache the
\* threads started from
SerialCache(first, second) ==
    CacheAfter(CacheAfter(last.cache_before, first), second)

\* C3: two concurrent calls for the same (source.id, target.id) leave the
\* cache that running them in some serial order leaves.
C3_Serializable ==
    (/\ \A t \in Threads : pc[t] = "done"
     /\ frame[1].source.id = frame[2].source.id
     /\ frame[1].target.id = frame[2].target.id)
    => mapping_cache \in {SerialCache(frame[1], frame[2]),
                          SerialCache(frame[2], frame[1])}

\* The (source.id, target.id) of the call that published a message
PairOf(message) == <<message.payload.source_id, message.payload.target_id>>

\* C4: the cache entry a call for one (source.id, target.id) reads and
\* writes is its pair's own: no earlier call that wrote this entry was for
\* a different pair.
C4_EntryOfOnePair ==
    last.op \in {"generate_mappings", "update_mappings"} =>
        \A i \in 1..(Len(bus) - 1) :
            CacheKey(PairOf(bus[i])[1], PairOf(bus[i])[2])
                = CacheKey(last.source.id, last.target.id)
            => PairOf(bus[i]) = <<last.source.id, last.target.id>>

\* The position in the target schema of the k-th returned mapping's target
PosOf(call, k) == FindField(call.target.fields, call.result[k].target_field)

\* The source fields claimed by the mappings accepted for targets before j
ClaimedBefore(call, j) ==
    {call.result[k].source_field :
        k \in {kk \in DOMAIN call.result : PosOf(call, kk) < j}}

Candidates(call, j) ==
    {i \in DOMAIN call.source.fields :
        call.source.fields[i].name \notin ClaimedBefore(call, j)}

ConfidenceOf(call, i, j) ==
    FieldConfidence(call.source.fields[i], call.target.fields[j])

Threshold == <<3, 10>>

\* Source i is the one to take for target j: unclaimed, above the
\* threshold, not beaten by any candidate and strictly better than every
\* candidate before it
IsChoice(call, j, i) ==
    /\ i \in Candidates(call, j)
    /\ RGt(ConfidenceOf(call, i, j), Threshold)
    /\ \A o \in Candidates(call, j) :
           /\ ~RGt(ConfidenceOf(call, o, j), ConfidenceOf(call, i, j))
           /\ o < i => RGt(ConfidenceOf(call, i, j), ConfidenceOf(call, o, j))

\* Target j of the call: mapped from the one choice, or left out because no
\* candidate is above the threshold
TargetSettled(call, j) ==
    IF \E k \in DOMAIN call.result : PosOf(call, k) = j
    THEN \A k \in DOMAIN call.result :
             PosOf(call, k) = j =>
                 \E i \in DOMAIN call.source.fields :
                     /\ IsChoice(call, j, i)
                     /\ call.result[k].source_field = call.source.fields[i].name
                     /\ call.result[k].confidence = ConfidenceOf(call, i, j)
    ELSE \A i \in Candidates(call, j) :
             ~RGt(ConfidenceOf(call, i, j), Threshold)

\* C5: generate_mappings is a greedy pass over the targets in declared
\* order: each target takes, among the sources no earlier accepted mapping
\* claimed, the one of strictly highest confidence (the first on a tie), if
\* that confidence is > 0.3, and claims it; a target without such a source
\* gets no mapping; the list returned is in target order.
C5_GreedyInTargetOrder ==
    LastIsGenerate =>
        /\ \A k \in DOMAIN last.result : PosOf(last, k) # 0
        /\ \A k \in DOMAIN last.result, n \in DOMAIN last.result :
               k < n => PosOf(last, k) < PosOf(last, n)
        /\ \A j \in DOMAIN last.target.fields : TargetSettled(last, j)

\* C5: a call in which two unclaimed sources tie on the highest confidence
\* for a target, the first is mapped, and another target is left out
C5_Witness ==
    /\ LastIsGenerate
    /\ Len(last.result) < Len(last.target.fields)
    /\ \E k \in DOMAIN last.result, i \in DOMAIN last.source.fields,
          o \in DOMAIN last.source.fields :
           /\ i < o
           /\ last.result[k].source_field = last.source.fields[i].name
           /\ o \in Candidates(last, PosOf(last, k))
           /\ ConfidenceOf(last, i, PosOf(last, k))
                  = ConfidenceOf(last, o, PosOf(last, k))

\* The call just completed found a snapshot of its source_id
LastIsWarm ==
    /\ last.op = "detect_schema_changes"
    /\ last.source_id \in DOMAIN last.cache_before

LastIsCold ==
    /\ last.op = "detect_schema_changes"
    /\ last.source_id \notin DOMAIN last.cache_before

OldFields == last.cache_before[last.source_id].fields

NewFields == last.new_schema.fields

\* The names present in both the snapshot and the new schema
CommonNames ==
    {OldFields[i].name : i \in DOMAIN OldFields}
        \cap {NewFields[i].name : i \in DOMAIN NewFields}

OldType(name) == OldFields[FindField(OldFields, name)].data_type

NewType(name) == NewFields[FindField(NewFields, name)].data_type

OldNullable(name) == OldFields[FindField(OldFields, name)].nullable

NewNullable(name) == NewFields[FindField(NewFields, name)].nullable

\* The positions in the returned list of the changes of one kind for a field
ChangesOf(kind, name) ==
    {c \in DOMAIN last.changes :
        /\ last.changes[c].change_type = kind
        /\ last.changes[c].field_name = name}

\* C6 as stated: for a field in both schemas, type_changed is emitted iff
\* the normalized types differ, with the normalized types as old_value and
\* new_value.
C6_TypeChangedOnNormalized ==
    LastIsWarm =>
        \A name \in CommonNames :
            /\ ChangesOf("type_changed", name) # {}
                   <=> _normalize_type(OldType(name)) # _normalize_type(NewType(name))
            /\ \A c \in ChangesOf("type_changed", name) :
                   /\ last.changes[c].old_value = _normalize_type(OldType(name))
                   /\ last.changes[c].new_value = _normalize_type(NewType(name))

\* C6, amended: for a field in both schemas, type_changed is emitted iff
\* the two data_type strings differ as written, with those strings as
\* old_value and new_value.
C6_TypeChangedOnWritten ==
    LastIsWarm =>
        \A name \in CommonNames :
            /\ ChangesOf("type_changed", name) # {} <=> OldType(name) # NewType(name)
            /\ \A c \in ChangesOf("type_changed", name) :
                   /\ last.changes[c].old_value = OldType(name)
                   /\ last.changes[c].new_value = NewType(name)

\* C6: a call in which a type of a common field differs only in case or
\* size suffix, and a type_changed change is returned for it
C6_Witness ==
    /\ LastIsWarm
    /\ \E name \in CommonNames :
           /\ OldType(name) # NewType(name)
           /\ _normalize_type(OldType(name)) = _normalize_type(NewType(name))
           /\ ChangesOf("type_changed", name) # {}

\* C7: the first detect_schema_changes for a source_id without a snapshot
\* returns no change and stores the schema as the source_id's snapshot.
C7_ColdStartStores ==
    LastIsCold =>
        /\ last.changes = <<>>
        /\ last.source_id \in DOMAIN schema_cache
        /\ schema_cache[last.source_id] = last.new_schema

\* C7: a cold start on a schema with fields, another source_id cached
C7_Witness ==
    /\ LastIsCold
    /\ last.new_schema.fields # <<>>
    /\ DOMAIN last.cache_before # {}

\* C8: with a snapshot present, the snapshot becomes new_schema when the
\* returned list is non-empty and stays the previous object when it is
\* empty; the snapshots of the other source_ids are unchanged.
C8_SnapshotReplacedIffChanges ==
    LastIsWarm =>
        /\ DOMAIN schema_cache = DOMAIN last.cache_before
        /\ last.changes # <<>> => schema_cache[last.source_id] = last.new_schema
        /\ last.changes = <<>> =>
               schema_cache[last.source_id] = last.cache_before[last.source_id]
        /\ \A other \in DOMAIN last.cache_before \ {last.source_id} :
               schema_cache[other] = last.cache_before[other]

\* C8: a call that found no change in a schema object other than the
\* snapshot, another source_id cached
C8_Witness ==
    /\ LastIsWarm
    /\ last.changes = <<>>
    /\ last.new_schema # last.cache_before[last.source_id]
    /\ DOMAIN last.cache_before # {last.source_id}

\* C8: a call that found changes and replaced the snapshot
C8_WitnessReplaced ==
    /\ LastIsWarm
    /\ last.changes # <<>>
    /\ schema_cache[last.source_id] # last.cache_before[last.source_id]

\* One added change per field of `fields` whose name `others` lacks
AddedFor(source_id, fields, others) ==
    [i \in DOMAIN SelectSeq(fields, LAMBDA f : FindField(others, f.name) = 0) |->
        SchemaChange(source_id, "added",
            SelectSeq(fields, LAMBDA f : FindField(others, f.name) = 0)[i].name,
            NoValue,
            SelectSeq(fields, LAMBDA f : FindField(others, f.name) = 0)[i].data_type)]

\* One removed change per field of `fields` whose name `others` lacks
RemovedFor(source_id, fields, others) ==
    [i \in DOMAIN SelectSeq(fields, LAMBDA f : FindField(others, f.name) = 0) |->
        SchemaChange(source_id, "removed",
            SelectSeq(fields, LAMBDA f : FindField(others, f.name) = 0)[i].name,
            SelectSeq(fields, LAMBDA f : FindField(others, f.name) = 0)[i].data_type,
            NoValue)]

\* The changes of a common field: at most one of each kind, present when
\* the type, the nullability, differs; type_changed right before modified
CommonFieldInOrder(name) ==
    /\ Cardinality(ChangesOf("type_changed", name))
           = (IF OldType(name) # NewType(name) THEN 1 ELSE 0)
    /\ Cardinality(ChangesOf("modified", name))
           = (IF OldNullable(name) # NewNullable(name) THEN 1 ELSE 0)
    /\ \A c \in ChangesOf("type_changed", name), m \in ChangesOf("modified", name) :
           m = c + 1

\* The list from position `from` on holds only type_changed and modified
\* changes of common fields
OnlyCommonFrom(from) ==
    \A c \in DOMAIN last.changes :
        c >= from =>
            /\ last.changes[c].change_type \in {"type_changed", "modified"}
            /\ last.changes[c].field_name \in CommonNames

ChangesStartWith(added, removed) ==
    /\ Len(last.changes) >= Len(added) + Len(removed)
    /\ SubSeq(last.changes, 1, Len(added)) = added
    /\ SubSeq(last.changes, Len(added) + 1, Len(added) + Len(removed)) = removed
    /\ OnlyCommonFrom(Len(added) + Len(removed) + 1)

\* C9: the returned list is the added changes in new-schema order
\* (new_value the type), then the removed changes in old-schema order
\* (old_value the type), then for each common field its type_changed, if
\* any, right before its modified, if any.
C9_ChangesOrdered ==
    LastIsWarm =>
        /\ ChangesStartWith(AddedFor(last.source_id, NewFields, OldFields),
                            RemovedFor(last.source_id, OldFields, NewFields))
        /\ \A name \in CommonNames : CommonFieldInOrder(name)

\* C9: a call that returned added, removed and, for one field, both a
\* type_changed and a modified change
C9_Witness ==
    /\ LastIsWarm
    /\ \E c \in DOMAIN last.changes : last.changes[c].change_type = "added"
    /\ \E c \in DOMAIN last.changes : last.changes[c].change_type = "removed"
    /\ \E name \in CommonNames :
           /\ ChangesOf("type_changed", name) # {}
           /\ ChangesOf("modified", name) # {}

\* C10: every update_mappings call, the empty change list included,
\* publishes one message: schema.mapping.updated on mapping.events, with
\* change_count the length of the change list and mapping_count the number
\* of mappings returned.
C10_UpdatePublishesUpdated ==
    last.op = "update_mappings" =>
        /\ Len(last.published) = 1
        /\ last.published[1].topic = "mapping.events"
        /\ last.published[1].event_type = "schema.mapping.updated"
        /\ last.published[1].payload.change_count = Len(last.schema_changes)
        /\ last.published[1].payload.mapping_count = Len(last.result)

\* The type families of the compatibility resolver
Families ==
    {{T.VARCHAR, T.TEXT, T.CHAR, T.STRING},
     {T.INTEGER, T.BIGINT, T.SMALLINT, T.INT, T.NUMERIC, T.DECIMAL},
     {T.FLOAT, T.DOUBLE, T.NUMERIC, T.DECIMAL},
     {T.DATE, T.TIMESTAMP, T.DATETIME},
     {T.BOOLEAN, T.BOOL, T.BIT},
     {T.BLOB, T.BINARY, T.VARBINARY}}

ShareFamily(a, b) == \E family \in Families : a \in family /\ b \in family

\* C11: _check_type_compatibility is true for every ordered pair of types
\* of one family, and false for two distinct types that share no family.
C11_CompatibleWithinFamilies ==
    last.op = "_check_type_compatibility" =>
        /\ ShareFamily(_normalize_type(last.source_type),
                       _normalize_type(last.target_type)) => last.result
        /\ (/\ _normalize_type(last.source_type) # _normalize_type(last.target_type)
            /\ ~ShareFamily(_normalize_type(last.source_type),
                            _normalize_type(last.target_type))) => ~last.result

\* The caller has fed the changes reported for s1 followed by s2 to
\* update_mappings
PipelineDone == pc[1] = "done" /\ last.op = "update_mappings"

\* C12: after generate_mappings(S1, T), detect_schema_changes on S1 then
\* S2 and update_mappings(changes, S2, T), no mapping of the returned and
\* cached set has a source_field that S2 lacks.
C12_RemovedFieldsUnmapped ==
    PipelineDone =>
        /\ \A k \in DOMAIN last.result :
               FindField(frame[1].s2.fields, last.result[k].source_field) # 0
        /\ ReadExisting(mapping_cache, frame[1].s2, frame[1].target) = last.result

\* C12: a pipeline in which a mapped field of S1 was reported removed and
\* other mappings remain
C12_Witness ==
    /\ PipelineDone
    /\ last.result # <<>>
    /\ \E c \in DOMAIN last.schema_changes :
           /\ last.schema_changes[c].change_type = "removed"
           /\ \E k \in DOMAIN last.cache_before[CacheKey(frame[1].s2.id, frame[1].target.id)] :
                  last.cache_before[CacheKey(frame[1].s2.id, frame[1].target.id)][k].source_field
                      = last.schema_changes[c].field_name

\* The call just completed took the update branch: in the LangGraph class
\* an empty list takes the generate branch
LastIsUpdate == last.op = "update_mappings" /\ last.schema_changes # <<>>

\* The list the call read from the cache
LastExisting == ReadExisting(last.cache_before, last.source, last.target)

\* An added or type_changed change for a field the source schema lacks
NamesUnknownField(change) ==
    /\ change.change_type \in {"added", "type_changed"}
    /\ FindField(last.source.fields, change.field_name) = 0

\* C13: a change that names a field absent from the source schema changes
\* nothing, and the rest of the batch is applied as if it were not there:
\* the call returns what the batch without such changes yields.
C13_UnknownFieldSkipped ==
    (/\ LastIsUpdate
     /\ \E c \in DOMAIN last.schema_changes :
            NamesUnknownField(last.schema_changes[c]))
    => last.result =
           UpdatedMappingList(LastExisting,
               SelectSeq(last.schema_changes, LAMBDA ch : ~NamesUnknownField(ch)),
               last.source, last.target)

\* C13: a batch with a type_changed change for a mapped field that the
\* source schema lacks, an added change for an unknown field, and a later
\* change that is applied
C13_Witness ==
    /\ LastIsUpdate
    /\ \E c \in DOMAIN last.schema_changes :
           /\ last.schema_changes[c].change_type = "type_changed"
           /\ NamesUnknownField(last.schema_changes[c])
           /\ DictHas(MappingDict(LastExisting), last.schema_changes[c].field_name)
           /\ DictHas(MappingDict(last.result), last.schema_changes[c].field_name)
    /\ \E c \in DOMAIN last.schema_changes :
           /\ last.schema_changes[c].change_type = "added"
           /\ NamesUnknownField(last.schema_changes[c])
    /\ Len(last.result) > Len(LastExisting)

\* The batch holds a change of one of the kinds for the field
BatchNames(kinds, name) ==
    \E c \in DOMAIN last.schema_changes :
        /\ last.schema_changes[c].change_type \in kinds
        /\ last.schema_changes[c].field_name = name

\* The mapping the list holds for a source field
MappingOf(mappings, name) == DictGet(MappingDict(mappings), name)

IsMapped(mappings, name) == DictHas(MappingDict(mappings), name)

\* The mapping of a source field recomputed against a target field of the
\* call's schemas, by position
Recomputed(u, t) ==
    BuildMapping(last.source.fields[u], last.target.fields[t],
                 FieldConfidence(last.source.fields[u], last.target.fields[t]))

\* A type_changed field that had a mapping whose two fields the schemas
\* hold: the mapping is the one recomputed against the same target
RetypedInPlace(name) ==
    (/\ IsMapped(LastExisting, name)
     /\ FindField(last.source.fields, name) # 0
     /\ FindField(last.target.fields, MappingOf(LastExisting, name).target_field) # 0)
    => /\ Cardinality({k \in DOMAIN last.result :
                           last.result[k].source_field = name}) = 1
       /\ MappingOf(last.result, name).target_field
              = MappingOf(LastExisting, name).target_field
       /\ MappingOf(last.result, name)
              = Recomputed(FindField(last.source.fields, name),
                           FindField(last.target.fields,
                                     MappingOf(LastExisting, name).target_field))

\* The mappings kept from the cached list are in the order they had
OrderKept ==
    SelectSeq(SourceFieldsOf(last.result), LAMBDA name : IsMapped(LastExisting, name))
        = SelectSeq(SourceFieldsOf(LastExisting),
                    LAMBDA name : IsMapped(last.result, name))

\* C14: a type_changed change on a mapped field keeps the mapping's
\* source_field, target_field and place in the list and recomputes
\* confidence, mapping_type and transformation from the field's new type
\* against that same target; an unmapped field stays unmapped.
C14_TypeChangedRecomputedInPlace ==
    LastIsUpdate =>
        /\ OrderKept
        /\ \A c \in DOMAIN last.schema_changes :
               (/\ last.schema_changes[c].change_type = "type_changed"
                /\ ~BatchNames({"added", "removed"}, last.schema_changes[c].field_name))
               => /\ RetypedInPlace(last.schema_changes[c].field_name)
                  /\ ~IsMapped(LastExisting, last.schema_changes[c].field_name)
                         => ~IsMapped(last.result, last.schema_changes[c].field_name)

\* C14: a call that retyped a mapped field, whose mapping changed, with
\* another mapping after it in the list
C14_Witness ==
    /\ LastIsUpdate
    /\ \E k \in DOMAIN last.result :
           /\ k < Len(last.result)
           /\ BatchNames({"type_changed"}, last.result[k].source_field)
           /\ IsMapped(LastExisting, last.result[k].source_field)
           /\ MappingOf(LastExisting, last.result[k].source_field) # last.result[k]
           /\ MappingOf(LastExisting, last.result[k].source_field).target_field
                  = last.result[k].target_field


\* mapping_dict after the first c changes of the call's batch
DictAfter(c) ==
    ProcessChanges(SubSeq(last.schema_changes, 1, c), 1, last.source, last.target,
                   LastExisting, MappingDict(LastExisting))

\* The positions of the target fields an added field may take: not among
\* the used target names, confidence above 0.5
FitPositions(new_field, used) ==
    {j \in DOMAIN last.target.fields :
         /\ last.target.fields[j].name \notin used
         /\ RGt(FieldConfidence(new_field, last.target.fields[j]), <<1, 2>>)}

Lowest(positions) == CHOOSE j \in positions : \A k \in positions : j <= k

\* The c-th change maps new_field to the first target that fits, or, where
\* none fits, changes nothing
AddedStepFirstFit(c, new_field, used) ==
    DictAfter(c) =
        IF FitPositions(new_field, used) = {} THEN DictAfter(c - 1)
        ELSE DictSet(DictAfter(c - 1), new_field.name,
                 BuildMapping(new_field,
                     last.target.fields[Lowest(FitPositions(new_field, used))],
                     FieldConfidence(new_field,
                         last.target.fields[Lowest(FitPositions(new_field, used))])))

\* The target fields of the mappings the dict holds
TargetsOf(mapping_dict) ==
    {DictValues(mapping_dict)[k].target_field : k \in DOMAIN DictValues(mapping_dict)}

\* C15: an added change whose field the source schema holds maps the field
\* to the first target, in declared order, that no mapping of the current
\* set uses and whose confidence is above 0.5, though a later one may score
\* higher; where there is none the change alters nothing.
C15_AddedFirstFit ==
    LastIsUpdate =>
        \A c \in DOMAIN last.schema_changes :
            (/\ last.schema_changes[c].change_type = "added"
             /\ FindField(last.source.fields, last.schema_changes[c].field_name) # 0)
            => AddedStepFirstFit(c,
                   last.source.fields[FindField(last.source.fields,
                                                last.schema_changes[c].field_name)],
                   TargetsOf(DictAfter(c - 1)))


\* Every change of the call's batch is a modified one
OnlyModified ==
    \A c \in DOMAIN last.schema_changes :
        last.schema_changes[c].change_type = "modified"

\* C16: an update_mappings call whose batch holds only modified changes
\* returns the list it read from the cache, same mappings in the same
\* order, and leaves that list in the pair's cache entry.
C16_ModifiedOnlyKeepsMappings ==
    (LastIsUpdate /\ OnlyModified) =>
        /\ last.result = LastExisting
        /\ ReadExisting(mapping_cache, last.source, last.target) = LastExisting

\* C16: such a call on a pair with cached mappings, one of them for a field
\* the batch names, whose type in the passed schema no longer is the one the
\* mapping was made for
C16_Witness ==
    /\ LastIsUpdate
    /\ OnlyModified
    /\ \E k \in DOMAIN LastExisting :
           /\ BatchNames({"modified"}, LastExisting[k].source_field)
           /\ FindField(last.source.fields, LastExisting[k].source_field) # 0
           /\ FindField(last.target.fields, LastExisting[k].target_field) # 0
           /\ LastExisting[k]
                  # Recomputed(FindField(last.source.fields, LastExisting[k].source_field),
                               FindField(last.target.fields, LastExisting[k].target_field))


\* The mappings the call made: all of them for generate_mappings, those
\* the list read from the cache did not hold for update_mappings
MadeByCall ==
    {k \in DOMAIN last.result :
         last.op = "update_mappings"
             => \A e \in DOMAIN LastExisting : LastExisting[e] # last.result[k]}

\* The types of the two fields of a mapping as the call's schemas give them
TypesIdentical(mapping) ==
    _are_types_identical(
        last.source.fields[FindField(last.source.fields, mapping.source_field)].data_type,
        last.target.fields[FindField(last.target.fields, mapping.target_field)].data_type)

\* C17: a mapping made by generate_mappings, or created or recomputed by
\* update_mappings, is Direct with no transformation exactly when the
\* normalised types of its two fields are identical, and otherwise
\* Transformed with a transformation template; it is never Derived.
C17_DirectIffIdenticalTypes ==
    last.op \in {"generate_mappings", "update_mappings"} =>
        \A k \in MadeByCall :
            /\ last.result[k].mapping_type \in {DIRECT, TRANSFORMED}
            /\ last.result[k].mapping_type = DIRECT <=> TypesIdentical(last.result[k])
            /\ last.result[k].transformation = None <=> TypesIdentical(last.result[k])

\* C17: an update_mappings call that made a Transformed mapping between
\* compatible types and left a Direct one in the list
C17_Witness ==
    /\ LastIsUpdate
    /\ \E k \in MadeByCall :
           /\ last.result[k].mapping_type = TRANSFORMED
           /\ _check_type_compatibility(
                  last.source.fields[FindField(last.source.fields,
                                               last.result[k].source_field)].data_type,
                  last.target.fields[FindField(last.target.fields,
                                               last.result[k].target_field)].data_type)
    /\ \E k \in DOMAIN last.result : last.result[k].mapping_type = DIRECT


\* The k-th payload entry of a generated message describes the k-th mapping
EntryDescribes(entry, mapping) ==
    /\ entry.source_field = mapping.source_field
    /\ entry.target_field = mapping.target_field
    /\ entry.confidence = mapping.confidence
    /\ entry.mapping_type = mapping.mapping_type
    /\ entry.has_transformation = (mapping.transformation # None)

\* C18: a generate_mappings call publishes exactly one message, on
\* mapping.events, of type schema.mapping.generated, with the ids of the two
\* schemas, mapping_count the length of the returned list and one entry per
\* returned mapping in the list's order; the pair's cache entry then holds
\* the returned list.
C18_GeneratePublishesOnce ==
    last.op = "generate_mappings" =>
        /\ Len(last.published) = 1
        /\ bus # <<>> /\ bus[Len(bus)] = last.published[1]
        /\ last.published[1].topic = MAPPING_EVENTS
        /\ last.published[1].event_type = "schema.mapping.generated"
        /\ last.published[1].payload.source_id = last.source.id
        /\ last.published[1].payload.target_id = last.target.id
        /\ last.published[1].payload.mapping_count = Len(last.result)
        /\ Len(last.published[1].payload.mappings) = Len(last.result)
        /\ \A k \in DOMAIN last.result :
               EntryDescribes(last.published[1].payload.mappings[k], last.result[k])
        /\ ReadExisting(mapping_cache, last.source, last.target) = last.result

\* C18: a second generate_mappings call, returning a Transformed mapping and
\* a Direct one, for a pair whose cache entry held another list
C18_Witness ==
    /\ last.op = "generate_mappings"
    /\ calls = 2
    /\ Len(bus) = 2
    /\ LastExisting # last.result
    /\ LastExisting # <<>>
    /\ \E j, k \in DOMAIN last.result :
           /\ last.result[j].mapping_type = TRANSFORMED
           /\ last.result[k].mapping_type = DIRECT


\* C19: _calculate_name_similarity gives the same value for two names in
\* either order.
C19_NameSimilaritySymmetric ==
    last.op = "_calculate_name_similarity" =>
        last.result = _calculate_name_similarity(last.name2, last.name1)


\* The plain read of a field of the row: row['<field_name>']
RowRead(field_name) == <<"r","o","w","[","'">> \o field_name \o <<"'","]">>

\* The coercion of the row read the claim gives for a cast target, the
\* plain read where the target has no coercion rule or there is no cast
CoercionOf(transformation, field_name) ==
    IF transformation.fn # "CAST" THEN RowRead(field_name)
    ELSE IF transformation.as \in {T.INTEGER, T.INT, T.BIGINT, T.SMALLINT}
    THEN <<"i","n","t","(">> \o RowRead(field_name) \o <<")">>
    ELSE IF transformation.as \in {T.FLOAT, T.DOUBLE}
    THEN <<"f","l","o","a","t","(">> \o RowRead(field_name) \o <<")">>
    ELSE IF transformation.as \in {T.VARCHAR, T.TEXT, T.STRING}
    THEN <<"s","t","r","(">> \o RowRead(field_name) \o <<")">>
    ELSE IF transformation.as \in {T.BOOLEAN, T.BOOL}
    THEN <<"b","o","o","l","(">> \o RowRead(field_name) \o <<")">>
    ELSE RowRead(field_name)

\* C20: generate_transformation gives, for a Direct mapping, the source
\* field name as sql_logic and the plain row read as python_logic; for a
\* Transformed mapping, the template with {field} replaced by the source
\* field name as sql_logic and as python_logic the int(), float(), str() or
\* bool() coercion of the row read that the cast target calls for, or the
\* plain row read, never None, where no coercion rule applies; for a
\* Derived mapping, two stubs that name the target field.
C20_TransformationLogic ==
    last.op = "generate_transformation" =>
        /\ last.mapping.mapping_type = DIRECT
               => /\ last.result.sql_logic = last.mapping.source_field
                  /\ last.result.python_logic = RowRead(last.mapping.source_field)
        /\ (last.mapping.mapping_type = TRANSFORMED /\ last.mapping.transformation # None)
               => /\ last.result.sql_logic
                         = Replace(TemplateText(last.mapping.transformation),
                                   <<"{","f","i","e","l","d","}">>, last.mapping.source_field)
                  /\ last.result.python_logic # NoValue
                  /\ last.result.python_logic
                         = CoercionOf(last.mapping.transformation,
                                      last.mapping.source_field)
        /\ last.mapping.mapping_type = "derived"
               => /\ last.result.sql_logic
                         = <<"-","-"," ","C","u","s","t","o","m"," ","l","o","g","i","c"," ","n","e","e","d","e","d"," ","f","o","r"," ">> \o last.mapping.target_field
                  /\ last.result.python_logic
                         = <<"#"," ","C","u","s","t","o","m"," ","l","o","g","i","c"," ","n","e","e","d","e","d"," ","f","o","r"," ">> \o last.mapping.target_field


\* The handlers of a topic in the bus as a call found it, none for a topic
\* it did not hold
HandlersBefore(topic) == CacheGet(last.before, topic, <<>>)

AfterTypeSteps ==
    IF _are_types_identical(last.source_field.data_type, last.target_field.data_type)
    THEN RMin(ROne, RMul(IF last.type_compatible THEN last.name_similarity
                         ELSE RMul(last.name_similarity, <<3, 10>>),
                         <<6, 5>>))
    ELSE IF last.type_compatible THEN last.name_similarity
    ELSE RMul(last.name_similarity, <<3, 10>>)

\* C23: _calculate_confidence is the similarity, times 0.3 for incompatible
\* types, raised to min(1, c * 1.2) for identical normalised types, and
\* then given exactly one nullability adjustment: min(1, c * 1.05) for
\* equal flags, c * 0.95 for a source that is not nullable and a target
\* that is, c * 0.85 for the reverse; it lies in [0, 1].
C23_ConfidenceSequence ==
    last.op = "_calculate_confidence" =>
        /\ last.result =
               IF last.source_field.nullable = last.target_field.nullable
               THEN RMin(ROne, RMul(AfterTypeSteps, <<21, 20>>))
               ELSE IF ~last.source_field.nullable
               THEN RMul(AfterTypeSteps, <<19, 20>>)
               ELSE RMul(AfterTypeSteps, <<17, 20>>)
        /\ ~RGt(RZero, last.result)
        /\ ~RGt(last.result, ROne)

\* C23: a call for identical types whose boost is cut at 1, with a
\* nullable source and a target that is not
C23_Witness ==
    /\ last.op = "_calculate_confidence"
    /\ last.name_similarity = <<9, 10>>
    /\ last.type_compatible
    /\ _are_types_identical(last.source_field.data_type, last.target_field.data_type)
    /\ last.source_field.nullable
    /\ ~last.target_field.nullable
    /\ last.result = <<17, 20>>


\* The cast target the claim gives the family of a normalised target type
FamilyCast(target_norm) ==
    IF target_norm \in {T.VARCHAR, T.TEXT, T.CHAR, T.STRING} THEN T.VARCHAR
    ELSE IF target_norm \in {T.INTEGER, T.INT, T.BIGINT, T.SMALLINT} THEN T.INTEGER
    ELSE IF target_norm \in {T.NUMERIC, T.DECIMAL} THEN T.NUMERIC
    ELSE IF target_norm \in {T.FLOAT, T.DOUBLE} THEN T.FLOAT
    ELSE IF target_norm \in {T.DATE, T.TIMESTAMP, T.DATETIME} THEN T.TIMESTAMP
    ELSE IF target_norm \in {T.BOOLEAN, T.BOOL, T.BIT} THEN T.BOOLEAN
    ELSE target_norm

\* C24: _generate_type_conversion returns the cast to VARCHAR for a string
\* target, to INTEGER for an integer one, to NUMERIC for NUMERIC and
\* DECIMAL, to FLOAT for FLOAT and DOUBLE, to TIMESTAMP for a temporal one,
\* to BOOLEAN for BOOLEAN, BOOL and BIT, and the cast naming the normalised
\* target for any other; the source type has no part in it.
C24_TypeConversionByFamily ==
    last.op = "_generate_type_conversion" =>
        /\ last.result = CastTemplate(FamilyCast(_normalize_type(last.target_type)))
        /\ \A source_type \in TypePool :
               _generate_type_conversion(source_type, last.target_type) = last.result


\* The two names of the last similarity call, lower-cased and without
\* '_' and '-'
Norm1 == NormalizeName(last.name1)

Norm2 == NormalizeName(last.name2)

\* part occurs in whole as a run of adjacent characters
Within(part, whole) ==
    \E i \in 0..(Len(whole) - Len(part)) : SubSeq(whole, i + 1, i + Len(part)) = part

AbbreviationPair(abbr, full) ==
    \E x \in DOMAIN common_abbreviations : common_abbreviations[x] = <<abbr, full>>

\* C25: _calculate_name_similarity returns 1.0 for names equal after
\* lower-casing and removing '_' and '-'; otherwise at least 0.8 when one
\* normalised name is a substring of the other and at least 0.9 for an
\* abbreviation pair in either order; it always lies in [0, 1].
C25_NameSimilarityFloors ==
    last.op = "_calculate_name_similarity" =>
        /\ Norm1 = Norm2 => last.result = ROne
        /\ (Norm1 # Norm2 /\ (Within(Norm1, Norm2) \/ Within(Norm2, Norm1)))
               => ~RGt(<<4, 5>>, last.result)
        /\ (AbbreviationPair(Norm1, Norm2) \/ AbbreviationPair(Norm2, Norm1))
               => ~RGt(<<9, 10>>, last.result)
        /\ ~RGt(RZero, last.result)
        /\ ~RGt(last.result, ROne)

\* C25: a call with the full name first and its abbreviation second, the
\* full name not containing the abbreviation; the block ratio alone is
\* below 0.9
C25_Witness ==
    /\ last.op = "_calculate_name_similarity"
    /\ AbbreviationPair(Norm2, Norm1)
    /\ ~Within(Norm2, Norm1)
    /\ RGt(<<9, 10>>, SequenceMatcherRatio(Norm1, Norm2))
    /\ last.result = <<9, 10>>


\* What SchemaMappingAgent does for the last call, from the cache the call
\* started from
PlainOutcome ==
    IF last.op = "generate_mappings"
    THEN PlainGenerateMappings(last.cache_before, last.source, last.target)
    ELSE PlainUpdateMappings(last.cache_before, last.schema_changes,
                             last.source, last.target)

\* What SchemaMappingAgentLangGraph does for it, from the same cache
LangGraphOutcome ==
    LangGraphExecute(last.cache_before, last.schema_changes, last.source, last.target)

EventTypes(published) == [i \in DOMAIN published |-> published[i].event_type]

\* C22: given the same calls of generate_mappings and update_mappings, an
\* update with an empty change list included, SchemaMappingAgent and
\* SchemaMappingAgentLangGraph return equal lists, leave equal caches and
\* publish the same event types in the same order: from equal caches, each
\* call has the same effect in both.
C22_ImplementationsAgree ==
    last.op \in {"generate_mappings", "update_mappings"} =>
        /\ PlainOutcome.result = LangGraphOutcome.result
        /\ PlainOutcome.cache = LangGraphOutcome.cache
        /\ EventTypes(PlainOutcome.published) = EventTypes(LangGraphOutcome.published)


\* C26: after any sequence of generate_mappings and update_mappings calls
\* every mapping in the mapping cache has a confidence above 0.3, the
\* mappings recomputed for a type_changed change included.
C26_CachedConfidenceAboveThreshold ==
    \A key \in DOMAIN mapping_cache :
        \A k \in DOMAIN mapping_cache[key] :
            RGt(mapping_cache[key][k].confidence, <<3, 10>>)


\* The step is a detect_schema_changes call with the source id and the
\* schema of the call before it
RepeatsLastDetect ==
    /\ last.op = "detect_schema_changes"
    /\ last'.op = "detect_schema_changes"
    /\ last'.source_id = last.source_id
    /\ last'.new_schema = last.new_schema

\* C28: a detect_schema_changes(source_id, X) that immediately follows a
\* detect_schema_changes(source_id, X) returns the empty list and leaves
\* the cached snapshot as it was.
C28_DetectIdempotent ==
    [][RepeatsLastDetect => (last'.changes = <<>> /\ schema_cache' = schema_cache)]_vars

\* C28: the second of two calls, both with the schema that the first one
\* stored; it reported nothing
C28_Witness ==
    /\ calls = 2
    /\ last.op = "detect_schema_changes"
    /\ last.source_id \in DOMAIN last.cache_before
    /\ last.cache_before[last.source_id] = last.new_schema
    /\ last.changes = <<>>
    /\ schema_cache = last.cache_before


\* The messages among `published` that went to the topic, in order
OnTopic(published, topic) == SelectSeq(published, LAMBDA m : m.topic = topic)

\* C27: an update_catalog call of DataDiscoveryAgent that detects changes
\* publishes exactly one data.discovery.completed message on
\* discovery.events and exactly one message on schema.events, of event type
\* schema.changed and with payload {source_id, changes}; every message on
\* schema.events has the event type schema.changed, as with
\* DataDiscoveryAgentLangGraph.
C27_CatalogPublishesSchemaChanged ==
    /\ (last.op = "update_catalog" /\ last.changes # <<>>) =>
           /\ Len(OnTopic(last.published, "discovery.events")) = 1
           /\ OnTopic(last.published, "discovery.events")[1].event_type
                  = "data.discovery.completed"
           /\ Len(OnTopic(last.published, "schema.events")) = 1
           /\ OnTopic(last.published, "schema.events")[1].event_type = "schema.changed"
           /\ OnTopic(last.published, "schema.events")[1].payload
                  = [source_id |-> last.metadata.source_id,
                     changes |-> [i \in DOMAIN last.changes |->
                        [change_type |-> last.changes[i].change_type,
                         field_name |-> last.changes[i].field_name,
                         old_value |-> last.changes[i].old_value,
                         new_value |-> last.changes[i].new_value]]]
    /\ \A i \in DOMAIN bus :
           bus[i].topic = "schema.events" => bus[i].event_type = "schema.changed"

OnlyAdded ==
    /\ last.schema_changes # <<>>
    /\ \A c \in DOMAIN last.schema_changes :
           last.schema_changes[c].change_type = "added"

\* The mappings of the list whose source field no change of the batch names
Unnamed(mappings) ==
    SelectSeq(mappings, LAMBDA m : ~BatchNames({"added"}, m.source_field))

\* C30: an update_mappings call whose batch holds only added changes leaves
\* every cached mapping whose source field no change names as it was, in
\* the same relative order, so that the cache holds at least as many
\* mappings after the call as before.
C30_AddedOnlyKeepsMappings ==
    (last.op = "update_mappings" /\ OnlyAdded) =>
        /\ mapping_cache[CacheKey(last.source.id, last.target.id)] = last.result
        /\ Unnamed(last.result) = Unnamed(LastExisting)
        /\ Len(last.result) >= Len(LastExisting)

\* C30: an added-only update that found mappings in the cache and appended
\* a new one
C30_Witness ==
    /\ last.op = "update_mappings"
    /\ OnlyAdded
    /\ Unnamed(LastExisting) # <<>>
    /\ Len(last.result) > Len(LastExisting)

====
